---- MODULE Spec2Model ----
(***************************************************************************)
(* Verification model of the RAG pipeline of mermaid_llm:                  *)
(*   rag/retriever.py   DocumentRetriever.retrieve, SourceInfo, context    *)
(*   rag/nodes/*.py     the retrieve / generate / generate_streaming nodes *)
(*   rag/chain.py       run_rag (buffered) and stream_rag (event stream)   *)
(*   rag/indexer.py     DocumentIndexer over a persisted Chroma collection *)
(*   rag/providers/*.py the API-key check of the provider factories         *)
(*   rag/llm.py         create_llm and the model each provider is built on *)
(*   rag/loaders.py     load_document and the five loaders                 *)
(*   rag/splitter.py    create_text_splitter                               *)
(*   api/routers/rag.py the chat endpoints, buffered and streaming (SSE)   *)
(*   api/schemas.py     the request messages                               *)
(*                                                                         *)
(* Python str values that are only compared and concatenated (file names,  *)
(* sheet names, chunk text, source keys, the context) are TLA+ strings.    *)
(* Generated text, which is accumulated and compared by prefix, is a       *)
(* sequence of one-character strings.  An optional value (Python None or a *)
(* value) is the empty tuple or a one-element tuple.                       *)
(***************************************************************************)
EXTENDS Integers, Sequences, FiniteSets, TLC

VARIABLES
    \* ---- the language-model backend and the index as seen by one query ----
    backend,        \* the deltas the backend's astream() yields, in order
    backendFull,    \* the content the backend's ainvoke() returns
    searchHits,     \* what similarity_search_with_score returns right now
    ragSettings,    \* rag_settings: the selected provider and its API key
    \* ---- stream_rag: one streaming invocation ----
    pcS,            \* INITIAL, RETRIEVED, GENERATING, FINAL, DONE, FAILED
    events,         \* the events stream_rag has yielded, in order
    units,          \* the units generate_streaming has yielded, in order
    accumulated,    \* generate_streaming's accumulator
    pos,            \* number of backend deltas consumed
    sResult,        \* stream_rag's local `result` (a RetrievalResult)
    sHits,          \* the search result that retrieval was computed from
    retrieveCalls,  \* similarity searches made by this stream invocation
    llmCalls,       \* llm.astream() calls made by this stream invocation
    \* ---- run_rag: one buffered invocation ----
    pcR,            \* INITIAL, RETRIEVED, GENERATED, FAILED
    runState,       \* the RAGState threaded through the graph
    rHitsUsed,      \* the search result run_rag's retrieval was computed from
    \* ---- DocumentRetriever.retrieve as a function of the search result ----
    qpc,            \* "input" before the call, "done" after
    qHits,          \* the (doc, score) pairs of the similarity search
    qResult,        \* the RetrievalResult returned
    \* ---- DocumentIndexer over the persisted collection ----
    collection,     \* number of chunks in the persisted collection "documents"
    vectorStore,    \* DocumentIndexer._vector_store: None or a Chroma handle
    prevOp,         \* after a status(): the operation it directly followed
    lastOp,         \* the last operation performed on the indexer
    lastCount,      \* what the last get_document_count() returned
    lastResult,     \* the IndexResult of the last index_documents()
    lastRun,        \* what the last operation did: the calls it made
    \* ---- POST /api/rag/chat and /api/rag/chat/stream: one request ----
    endpoint,       \* "chat" (buffered) or "chat/stream"
    pcE,            \* REQUEST, HTTP400, HTTP404, HTTP500, then for chat/stream
                    \* ACCEPTED, STREAMING, CLOSED and for chat RUNNING, HTTP200
    sessionReq,     \* request.session_id: none, malformed, unknown or valid
    sse,            \* the SSE events event_generator has yielded, in order
    consumed,       \* number of stream_rag events event_generator has handled
    sourcesSent,    \* event_generator's sources_sent
    lastResponse,   \* event_generator's last_response
    finalResponse,  \* event_generator's final_response
    messages,       \* the chat_messages rows committed for the session
    \* ---- the messages run_rag / stream_rag build for one request ----
    pcM,            \* "input", "called" (query and history passed), "built"
    request,        \* request.messages as the transport received them
    ragQuery,       \* the query argument of run_rag / stream_rag
    ragHistory,     \* the chat_history argument
    ragMessages,    \* initial_state["messages"]
    \* ---- one call of create_text_splitter ----
    pcT,            \* "input", "created"
    chunkSettings,  \* rag_settings.chunk_size and .chunk_overlap
    splitterArgs,   \* the chunk_size and chunk_overlap arguments (None or a value)
    splitter,       \* the arguments RecursiveCharacterTextSplitter is built with
    \* ---- one call of load_document ----
    pcL,            \* "input", "loaded", "raised"
    file,           \* the file: its extension and the text of its parts
    loaded,         \* the Documents the loader returned
    \* ---- the default indexer, the default retriever and the store handle ----
    defaultIndexer,   \* _default_indexer: None or the instance
    indexersMade,     \* the DocumentIndexer instances constructed
    got,              \* the instances get_indexer() has returned
    defaultRetriever, \* _default_retriever: None or the indexer it keeps
    store,            \* _vector_store of the indexer: None or the handle
    storeUsed,        \* the vector_store property has been read
    handlesMade,      \* the Chroma handles constructed
    sinceClear,       \* those constructed since the last clear_index began
    dropped,          \* the handles clear_index has set aside
    lastClear,        \* "none", or how the last clear_index ended
    clearMade,        \* the handle the last clear_index constructed
    used,             \* the handle the last retrieval searched with
    lastCall,         \* the last operation
    \* ---- stream_rag invocations in flight on one event loop ----
    pcI,            \* of each task: "new", "searching", "awaiting", "done"
    received,       \* of each task: the units of the backend it has received
    loop            \* the task the event loop is running, or None

backendVars == <<backend, backendFull, searchHits, ragSettings>>
streamVars == <<pcS, events, units, accumulated, pos, sResult, sHits, retrieveCalls,
                llmCalls>>
runVars == <<pcR, runState, rHitsUsed>>
queryVars == <<qpc, qHits, qResult>>
indexVars == <<collection, vectorStore, prevOp, lastOp, lastCount, lastResult,
               lastRun>>
chatVars == <<endpoint, pcE, sessionReq, sse, consumed, sourcesSent, lastResponse,
              finalResponse, messages>>
messageVars == <<pcM, request, ragQuery, ragHistory, ragMessages>>
splitterVars == <<pcT, chunkSettings, splitterArgs, splitter>>
loaderVars == <<pcL, file, loaded>>
handleVars == <<defaultIndexer, indexersMade, got, defaultRetriever, store,
                storeUsed, handlesMade, sinceClear, dropped, lastClear, clearMade, used,
                lastCall>>
loopVars == <<pcI, received, loop>>
callVars == <<messageVars, splitterVars, loaderVars, handleVars, loopVars>>
vars == <<backendVars, streamVars, runVars, queryVars, indexVars, chatVars,
          callVars>>

-----------------------------------------------------------------------------
\* Bounds of the model.
MaxDeltas == 2
MaxHits == 3
MaxFiles == 2
MaxStored == 3
MaxTurns == 2
MaxChunk == 4
MaxParts == 2
MaxTexts == 2
MaxHandles == 4
MaxTasks == 3

-----------------------------------------------------------------------------
\* Optional values: Python None, or a value.
None == <<>>
Some(x) == <<x>>

\* str(x) as an f-string renders a field: "None" for None, decimal for an int,
\* the string itself for a str.
PyStrInt(p) == IF p = None THEN "None" ELSE ToString(p[1])
PyStrStr(s) == IF s = None THEN "None" ELSE s[1]

-----------------------------------------------------------------------------
\* rag/retriever.py

\* A langchain Document: page_content and the metadata keys the loaders set
\* (a key that is absent is None, as metadata.get(key) reads it).
Doc(text, filename, page, slide, sheet) ==
    [page_content |-> text,
     metadata |-> [filename |-> filename, page |-> page,
                   slide |-> slide, sheet |-> sheet]]

\* The chunks the model's index can return.  DocPdf1a and DocPdf1b are two
\* chunks of the same page; DocSheet is a sheet of a.xlsx whose title holds
\* colons and DocTxt a text file whose name holds colons; DocBare has no
\* filename key.
DocPdf1a == Doc("p", Some("r.pdf"), Some(1), None, None)
DocPdf1b == Doc("q", Some("r.pdf"), Some(1), None, None)
DocPdf2 == Doc("s", Some("r.pdf"), Some(2), None, None)
DocSheet == Doc("t", Some("a.xlsx"), None, None, Some("S.txt:None:None:None"))
DocTxt == Doc("u", Some("a.xlsx:None:None:S.txt"), None, None, None)
DocBare == Doc("v", None, None, None, None)
Docs == {DocPdf1a, DocPdf1b, DocPdf2, DocSheet, DocTxt, DocBare}

\* Similarity scores (distances) the store reports.
Scores == {1, 2}
Hits == [doc : Docs, score : Scores]

\* All sequences over S of length at most n.
SeqUpTo(S, n) == UNION {[1..k -> S] : k \in 0..n}

\* SourceInfo.from_document
FromDocument(doc, score) ==
    [filename |-> IF doc.metadata.filename = None THEN "unknown"
                  ELSE doc.metadata.filename[1],
     page |-> doc.metadata.page,
     slide |-> doc.metadata.slide,
     sheet |-> doc.metadata.sheet,
     score |-> score]

\* Mutant of SourceKey: the score is part of the key.
SourceKeyWithScore(source) ==
    source.filename \o ":" \o PyStrInt(source.page) \o ":"
        \o PyStrInt(source.slide) \o ":" \o PyStrStr(source.sheet)
        \o ":" \o ToString(source.score)

\* The dedup key of retrieve(): f"{filename}:{page}:{slide}:{sheet}"
SourceKey(source) ==
    source.filename \o ":" \o PyStrInt(source.page) \o ":"
        \o PyStrInt(source.slide) \o ":" \o PyStrStr(source.sheet)

\* The loop of retrieve() over results[i..], with the documents, sources and
\* seen_sources built so far.
RECURSIVE RetrieveLoop(_, _, _, _, _)
RetrieveLoop(results, i, documents, sources, seen) ==
    IF i > Len(results) THEN [documents |-> documents, sources |-> sources]
    ELSE LET doc == results[i].doc
             source == FromDocument(doc, results[i].score)
             key == SourceKey(source)
         IN  IF key \notin seen
             THEN RetrieveLoop(results, i + 1, Append(documents, doc),
                               Append(sources, source), seen \cup {key})
             ELSE RetrieveLoop(results, i + 1, Append(documents, doc),
                               sources, seen)

\* Mutant of Retrieve: a chunk whose source key was already seen is dropped from
\* documents as well.
RECURSIVE RetrieveDropLoop(_, _, _, _, _)
RetrieveDropLoop(results, i, documents, sources, seen) ==
    IF i > Len(results) THEN [documents |-> documents, sources |-> sources]
    ELSE LET doc == results[i].doc
             source == FromDocument(doc, results[i].score)
             key == SourceKey(source)
         IN  IF key \notin seen
             THEN RetrieveDropLoop(results, i + 1, Append(documents, doc),
                                   Append(sources, source), seen \cup {key})
             ELSE RetrieveDropLoop(results, i + 1, documents, sources, seen)
RetrieveDroppingDuplicates(results) == RetrieveDropLoop(results, 1, <<>>, <<>>, {})

\* DocumentRetriever.retrieve, given the result of the similarity search.
Retrieve(results) == RetrieveLoop(results, 1, <<>>, <<>>, {})

\* sep.join(texts)
RECURSIVE JoinFrom(_, _, _)
JoinFrom(texts, i, sep) ==
    IF i > Len(texts) THEN ""
    ELSE IF i = Len(texts) THEN texts[i]
    ELSE texts[i] \o sep \o JoinFrom(texts, i + 1, sep)

ContextSeparator == "\n\n---\n\n"

\* RetrievalResult.context
Context(result) ==
    JoinFrom([i \in 1..Len(result.documents) |-> result.documents[i].page_content],
             1, ContextSeparator)

NoResult == [documents |-> <<>>, sources |-> <<>>]

\* One call of retriever.retrieve(query) on the current search result.
QueryRetrieve ==
    /\ qpc = "input"
    /\ qResult' = Retrieve(qHits)
    /\ qpc' = "done"
    /\ UNCHANGED <<qHits, backendVars, streamVars, runVars, indexVars, chatVars,
                   callVars>>

-----------------------------------------------------------------------------
\* The language-model backend: message content is a str or a list of parts,
\* a part being a str or a dict that may carry a "text" key.

StrContent(t) == [kind |-> "str", text |-> t, parts |-> <<>>]
ListContent(ps) == [kind |-> "list", text |-> <<>>, parts |-> ps]
StrPart(t) == [kind |-> "str", hasText |-> FALSE, text |-> t]
DictPart(t) == [kind |-> "dict", hasText |-> TRUE, text |-> t]
DictNoText == [kind |-> "dict", hasText |-> FALSE, text |-> <<>>]

\* The contents a delta of the model's backend can carry.
DeltaContents ==
    {StrContent(<<>>), StrContent(<<"H">>), StrContent(<<"l", "o">>),
     ListContent(<<>>), ListContent(<<StrPart(<<"e">>), DictPart(<<"y">>)>>),
     ListContent(<<DictNoText>>)}

\* Mutant of Truthy: only str content counts as content.
TruthyStrOnly(content) == content.kind = "str" /\ content.text # <<>>

\* Python truthiness of a content value: "" and [] are falsy.
Truthy(content) ==
    IF content.kind = "str" THEN content.text # <<>> ELSE content.parts # <<>>

\* chunk if isinstance(chunk, str) else chunk.get("text", "")
PartText(part) ==
    IF part.kind = "str" THEN part.text
    ELSE IF part.hasText THEN part.text ELSE <<>>

\* "".join(PartText(c) for c in parts[i..])
RECURSIVE JoinParts(_, _)
JoinParts(parts, i) ==
    IF i > Len(parts) THEN <<>> ELSE PartText(parts[i]) \o JoinParts(parts, i + 1)

\* The content extraction of generate() and generate_streaming().
ExtractContent(content) ==
    IF content.kind = "str" THEN content.text ELSE JoinParts(content.parts, 1)

\* rag_settings.llm_model and rag_settings.llm_provider
LlmModel == "gemma3:4b"
LlmProvider == "ollama"

\* The registered providers; every one but ollama requires an API key.
Providers == {"ollama", "openai", "anthropic", "gemini"}
RequiresApiKey(provider) == provider # "ollama"

\* rag_settings as far as create_llm reads it: the selected provider and the
\* API key setting of that provider (unset, empty or set).
ApiKeys == {None, Some(""), Some("sk")}
DefaultSettings == [llm_provider |-> LlmProvider, api_key |-> None]
Settings ==
    {DefaultSettings} \cup [llm_provider : Providers \ {"ollama"}, api_key : ApiKeys]

\* LLMProviderConfig.default_model of each provider.
DefaultModel(provider) ==
    CASE provider = "ollama" -> "gemma3:4b"
      [] provider = "openai" -> "gpt-4o-mini"
      [] provider = "anthropic" -> "claude-3-haiku-20240307"
      [] provider = "gemini" -> "gemini-1.5-flash"

\* a or b, for str
OrStr(a, b) == IF a # "" THEN a ELSE b

\* The model the backend is constructed with by get_default_llm, which passes
\* model=None: ollama falls back to rag_settings.llm_model and then to its
\* default, every other provider to its own default.
CreateLlmModel(settings) ==
    IF settings.llm_provider = "ollama"
    THEN OrStr(LlmModel, DefaultModel("ollama"))
    ELSE DefaultModel(settings.llm_provider)

\* not api_key
NotApiKey(key) == IF key = None THEN TRUE ELSE key[1] = ""

\* get_default_llm -> create_llm -> the provider's factory: raises ValueError
\* when the provider requires an API key and none is set.
CreateLlmRaises(settings) ==
    RequiresApiKey(settings.llm_provider) /\ NotApiKey(settings.api_key)

\* The text a backend script stands for: its deltas' text, concatenated.
RECURSIVE ScriptText(_, _)
ScriptText(script, n) ==
    IF n = 0 THEN <<>> ELSE ScriptText(script, n - 1) \o ExtractContent(script[n])

\* The full completions of a deterministic backend with this script: the same
\* text, as one str or as one list of text parts.
FullsFor(script) ==
    {StrContent(ScriptText(script, Len(script))),
     ListContent([i \in 1..Len(script) |-> DictPart(ExtractContent(script[i]))])}

\* The search results the model's index can give to one pipeline query.
PipelineHitLists ==
    {<<>>,
     <<[doc |-> DocPdf1a, score |-> 1]>>,
     <<[doc |-> DocPdf1a, score |-> 1], [doc |-> DocPdf1b, score |-> 2],
       [doc |-> DocPdf2, score |-> 2]>>,
     <<[doc |-> DocTxt, score |-> 1], [doc |-> DocSheet, score |-> 2]>>}

-----------------------------------------------------------------------------
\* rag/chain.py stream_rag and rag/nodes/generate.py generate_streaming

\* The unit generate_streaming yields for each delta with content.
StreamingUnit(acc) ==
    [response |-> acc, is_streaming |-> TRUE, model |-> None, provider |-> None]

\* Mutant of FinalUnit: the last unit is marked as still streaming.
FinalUnitStreaming(acc) ==
    [response |-> acc, is_streaming |-> TRUE,
     model |-> Some(LlmModel), provider |-> Some(ragSettings.llm_provider)]

\* The final unit of generate_streaming.
FinalUnit(acc) ==
    [response |-> acc, is_streaming |-> FALSE,
     model |-> Some(LlmModel), provider |-> Some(ragSettings.llm_provider)]

\* update.get(key, "") for the model and provider keys
GetOr(opt, default) == IF opt = None THEN default ELSE opt[1]

SourcesEvent(result) ==
    [event |-> "sources", sources |-> result.sources, context |-> Context(result)]

\* The event stream_rag yields for each unit of generate_streaming.
ChunkEvent(update) ==
    [event |-> "chunk", response |-> update.response,
     is_streaming |-> update.is_streaming]

DoneEvent(update, result) ==
    [event |-> "done", response |-> update.response,
     model |-> GetOr(update.model, ""), provider |-> GetOr(update.provider, ""),
     sources |-> result.sources]

\* Mutant of Accumulate: the accumulator is replaced by the delta.
AccumulateReplacing(acc, content) == content

\* accumulated += content
Accumulate(acc, content) == acc \o content

\* Mutant of StreamRetrieve: the retrieval result is not yielded.
StreamRetrieveSilent ==
    /\ pcS = "INITIAL"
    /\ sHits' = searchHits
    /\ sResult' = Retrieve(searchHits)
    /\ retrieveCalls' = retrieveCalls + 1
    /\ pcS' = "RETRIEVED"
    /\ UNCHANGED <<events, units, accumulated, pos, llmCalls, backendVars, runVars,
                   queryVars, indexVars,
                   chatVars, callVars>>

\* stream_rag up to its first yield: the retrieval and the sources event.
StreamRetrieve ==
    /\ pcS = "INITIAL"
    /\ sHits' = searchHits
    /\ sResult' = Retrieve(searchHits)
    /\ retrieveCalls' = retrieveCalls + 1
    /\ events' = Append(events, SourcesEvent(sResult'))
    /\ pcS' = "RETRIEVED"
    /\ UNCHANGED <<units, accumulated, pos, llmCalls, backendVars, runVars,
                   queryVars, indexVars, chatVars, callVars>>

\* The similarity search raises: stream_rag ends before any event.
StreamRetrieveFails ==
    /\ pcS = "INITIAL"
    /\ retrieveCalls' = retrieveCalls + 1
    /\ pcS' = "FAILED"
    /\ UNCHANGED <<events, units, accumulated, pos, sResult, sHits, llmCalls,
                   backendVars, runVars, queryVars, indexVars,
                   chatVars, callVars>>

\* llm.astream(prompt) is called once, when generate_streaming's loop starts.
AstreamCalls(pc, calls) == IF pc = "RETRIEVED" THEN calls + 1 ELSE calls

\* One iteration of generate_streaming's loop over llm.astream(prompt), and
\* stream_rag's re-yield of the unit as a chunk event.
StreamDelta ==
    /\ pcS \in {"RETRIEVED", "GENERATING"}
    /\ pcS = "RETRIEVED" => ~CreateLlmRaises(ragSettings)
    /\ llmCalls' = AstreamCalls(pcS, llmCalls)
    /\ pos < Len(backend)
    /\ pos' = pos + 1
    /\ pcS' = "GENERATING"
    /\ LET chunk == backend[pos + 1]
       IN  IF Truthy(chunk)
           THEN /\ accumulated' = Accumulate(accumulated, ExtractContent(chunk))
                /\ units' = Append(units, StreamingUnit(accumulated'))
                /\ events' = Append(events, ChunkEvent(StreamingUnit(accumulated')))
           ELSE UNCHANGED <<accumulated, units, events>>
    /\ UNCHANGED <<sResult, sHits, retrieveCalls, backendVars, runVars,
                   queryVars, indexVars,
                   chatVars, callVars>>

\* The backend is exhausted: generate_streaming yields its final unit, which
\* stream_rag's loop re-yields as a chunk event like every other unit.
StreamFinalUnit ==
    /\ pcS \in {"RETRIEVED", "GENERATING"}
    /\ pcS = "RETRIEVED" => ~CreateLlmRaises(ragSettings)
    /\ llmCalls' = AstreamCalls(pcS, llmCalls)
    /\ pos = Len(backend)
    /\ units' = Append(units, FinalUnit(accumulated))
    /\ events' = Append(events, ChunkEvent(FinalUnit(accumulated)))
    /\ pcS' = "FINAL"
    /\ UNCHANGED <<accumulated, pos, sResult, sHits, retrieveCalls,
                   backendVars, runVars, queryVars, indexVars,
                   chatVars, callVars>>

\* Mutant of StreamDone: the sources of the done event are retrieved again.
StreamDoneRecomputes ==
    /\ pcS = "FINAL"
    /\ retrieveCalls' = retrieveCalls + 1
    /\ events' = Append(events, DoneEvent(units[Len(units)], Retrieve(searchHits)))
    /\ pcS' = "DONE"
    /\ UNCHANGED <<units, accumulated, pos, sResult, sHits, llmCalls,
                   backendVars, runVars, queryVars, indexVars,
                   chatVars, callVars>>

\* After the loop: the done event, from the last unit and the saved result.
StreamDone ==
    /\ pcS = "FINAL"
    /\ events' = Append(events, DoneEvent(units[Len(units)], sResult))
    /\ pcS' = "DONE"
    /\ UNCHANGED <<units, accumulated, pos, sResult, sHits, retrieveCalls,
                   llmCalls, backendVars, runVars, queryVars, indexVars,
                   chatVars, callVars>>

\* The backend raises while the stream is open (at the astream call or at
\* any delta): the exception leaves stream_rag, which yields nothing more.
StreamBackendFails ==
    /\ pcS \in {"RETRIEVED", "GENERATING"}
    /\ pcS = "RETRIEVED" => ~CreateLlmRaises(ragSettings)
    /\ llmCalls' = AstreamCalls(pcS, llmCalls)
    /\ pcS' = "FAILED"
    /\ UNCHANGED <<events, units, accumulated, pos, sResult, sHits, retrieveCalls,
                   backendVars, runVars, queryVars, indexVars, chatVars,
                   callVars>>

\* generate_streaming's get_default_llm raises for a missing API key, before
\* astream is called: the exception leaves stream_rag after its sources event.
StreamCreateLlmFails ==
    /\ pcS = "RETRIEVED"
    /\ CreateLlmRaises(ragSettings)
    /\ pcS' = "FAILED"
    /\ UNCHANGED <<events, units, accumulated, pos, sResult, sHits, retrieveCalls,
                   llmCalls, backendVars, runVars, queryVars, indexVars, chatVars,
                   callVars>>

-----------------------------------------------------------------------------
\* rag/chain.py run_rag over the graph START -> retrieve -> generate -> END

\* The initial RAGState of run_rag and stream_rag.
InitialState(streaming) ==
    [retrieved_docs |-> <<>>, context |-> "", sources |-> <<>>,
     response |-> <<>>, is_streaming |-> streaming, model |-> "", provider |-> ""]

\* The retrieve node: its update is merged into the state.
RunRetrieve ==
    /\ pcR = "INITIAL"
    /\ rHitsUsed' = searchHits
    /\ LET result == Retrieve(searchHits)
       IN  runState' = [runState EXCEPT !.retrieved_docs = result.documents,
                                        !.context = Context(result),
                                        !.sources = result.sources]
    /\ pcR' = "RETRIEVED"
    /\ UNCHANGED <<backendVars, streamVars, queryVars, indexVars,
                   chatVars, callVars>>

\* The generate node: one ainvoke, content extraction, model and provider.
RunGenerate ==
    /\ pcR = "RETRIEVED"
    /\ ~CreateLlmRaises(ragSettings)
    /\ runState' = [runState EXCEPT !.response = ExtractContent(backendFull),
                                    !.model = LlmModel,
                                    !.provider = ragSettings.llm_provider]
    /\ pcR' = "GENERATED"
    /\ UNCHANGED <<rHitsUsed, backendVars, streamVars, queryVars, indexVars,
                   chatVars, callVars>>

\* A stage raises: ainvoke propagates it and run_rag returns no state.
RunFails ==
    /\ pcR \in {"INITIAL", "RETRIEVED"}
    /\ pcR' = "FAILED"
    /\ UNCHANGED <<runState, rHitsUsed, backendVars, streamVars, queryVars, indexVars,
                   chatVars, callVars>>

\* An indexing operation elsewhere changes what a similarity search returns.
IndexChanges ==
    /\ \E hits \in PipelineHitLists \ {searchHits} : searchHits' = hits
    /\ UNCHANGED <<backend, backendFull, ragSettings, streamVars, runVars, queryVars, indexVars,
                   chatVars, callVars>>

\* Values of the variables a specification does not use.
QueryIdle == qpc = "idle" /\ qHits = <<>> /\ qResult = NoResult
Op(name, clear, docs, oneChunkEach, failed, raised) ==
    [op |-> name, clear |-> clear, docs |-> docs,
     oneChunkEach |-> oneChunkEach, failed |-> failed, raised |-> raised]
NoOp == Op("none", FALSE, 0, FALSE, FALSE, FALSE)
NoIndexResult == [indexed_count |-> 0, chunk_count |-> 0, errors |-> <<>>]
Run(before, fileErrors, chunks, splitCalls, addCalls, addFailed) ==
    [before |-> before, fileErrors |-> fileErrors, chunks |-> chunks,
     splitCalls |-> splitCalls, addCalls |-> addCalls, addFailed |-> addFailed]
NoRun == Run(0, 0, 0, 0, 0, FALSE)
IndexIdle ==
    /\ collection = 0 /\ vectorStore = None
    /\ prevOp = NoOp /\ lastOp = NoOp
    /\ lastCount = 0 /\ lastResult = NoIndexResult /\ lastRun = NoRun
ChatIdle ==
    /\ endpoint = "none"
    /\ pcE = "idle" /\ sessionReq = "none" /\ sse = <<>> /\ consumed = 0
    /\ sourcesSent = FALSE /\ lastResponse = <<>> /\ finalResponse = <<>>
    /\ messages = <<>>
MessagesIdle ==
    /\ pcM = "idle" /\ request = <<>> /\ ragQuery = "" /\ ragHistory = <<>>
    /\ ragMessages = <<>>
SplitterIdle ==
    /\ pcT = "idle" /\ chunkSettings = <<>> /\ splitterArgs = <<>>
    /\ splitter = <<>>
LoaderIdle == pcL = "idle" /\ file = <<>> /\ loaded = <<>>
HandleIdle ==
    /\ defaultIndexer = <<>> /\ indexersMade = 0 /\ got = {}
    /\ defaultRetriever = <<>> /\ store = <<>> /\ handlesMade = 0
    /\ storeUsed = FALSE
    /\ sinceClear = 0 /\ dropped = {} /\ lastClear = "idle"
    /\ clearMade = <<>> /\ used = <<>> /\ lastCall = "idle"
LoopIdle == pcI = <<>> /\ received = <<>> /\ loop = <<>>
CallsIdle ==
    MessagesIdle /\ SplitterIdle /\ LoaderIdle /\ HandleIdle /\ LoopIdle
PipelineIdle ==
    /\ backend = <<>> /\ backendFull = StrContent(<<>>) /\ searchHits = <<>>
    /\ ragSettings = DefaultSettings
    /\ pcS = "idle" /\ events = <<>> /\ units = <<>> /\ accumulated = <<>>
    /\ pos = 0 /\ sResult = NoResult /\ sHits = <<>> /\ retrieveCalls = 0
    /\ llmCalls = 0
    /\ pcR = "idle" /\ runState = InitialState(FALSE) /\ rHitsUsed = <<>>

\* One query served twice, by stream_rag and by run_rag, over one backend.
InitPipeline ==
    /\ backend \in SeqUpTo(DeltaContents, MaxDeltas)
    /\ backendFull \in FullsFor(backend)
    /\ searchHits \in PipelineHitLists
    /\ ragSettings = DefaultSettings
    /\ pcS = "INITIAL" /\ events = <<>> /\ units = <<>> /\ accumulated = <<>>
    /\ pos = 0 /\ sResult = NoResult /\ sHits = <<>> /\ retrieveCalls = 0
    /\ llmCalls = 0
    /\ pcR = "INITIAL" /\ runState = InitialState(FALSE) /\ rHitsUsed = <<>>
    /\ QueryIdle
    /\ IndexIdle
    /\ ChatIdle
    /\ CallsIdle

NextPipeline ==
    \/ StreamRetrieve
    \/ StreamRetrieveFails
    \/ StreamDelta
    \/ StreamFinalUnit
    \/ StreamDone
    \/ StreamBackendFails
    \/ RunRetrieve
    \/ RunGenerate
    \/ RunFails
    \/ IndexChanges

SpecPipeline == InitPipeline /\ [][NextPipeline]_vars

\* retrieve() applied to every search result of at most MaxHits chunks.
InitQuery ==
    /\ qpc = "input"
    /\ qHits \in SeqUpTo(Hits, MaxHits)
    /\ qResult = NoResult
    /\ PipelineIdle
    /\ IndexIdle
    /\ ChatIdle
    /\ CallsIdle

NextQuery == QueryRetrieve

SpecQuery == InitQuery /\ [][NextQuery]_vars

-----------------------------------------------------------------------------
\* rag/indexer.py DocumentIndexer and rag/loaders.py load_directory

\* The files of a documents directory: a non-empty text that fits in one
\* chunk, a text longer than the chunk size, a whitespace-only text file, a
\* presentation whose only slide text is whitespace, a file whose loader
\* raises, a file with an unsupported extension.
FileKinds == {"small", "large", "blank", "blankslide", "corrupt", "other"}
MissingDir == [exists |-> FALSE, files |-> <<>>]
Dirs == {MissingDir} \cup [exists : {TRUE}, files : SeqUpTo(FileKinds, MaxFiles)]

\* load_directory over files[i..]: the documents yielded.  load_txt keeps a
\* text only if text.strip() is non-empty, load_pptx keeps a slide whenever a
\* shape has text; a loader exception is printed and the file skipped.
RECURSIVE LoadFiles(_, _)
LoadFiles(files, i) ==
    IF i > Len(files) THEN <<>>
    ELSE IF files[i] \in {"small", "large", "blankslide"}
         THEN <<files[i]>> \o LoadFiles(files, i + 1)
         ELSE LoadFiles(files, i + 1)

\* The files of files[i..] whose loader raised inside load_directory.
RECURSIVE FileErrors(_, _)
FileErrors(files, i) ==
    IF i > Len(files) THEN 0
    ELSE (IF files[i] = "corrupt" THEN 1 ELSE 0) + FileErrors(files, i + 1)

\* load_directory: raises for a directory that does not exist.
LoadDirectory(dir) ==
    IF dir.exists THEN [raised |-> FALSE, docs |-> LoadFiles(dir.files, 1)]
    ELSE [raised |-> TRUE, docs |-> <<>>]

\* text_splitter.split_documents: the number of chunks of documents[i..].
\* The splitter strips each chunk and drops the empty ones.
RECURSIVE SplitDocuments(_, _)
SplitDocuments(documents, i) ==
    IF i > Len(documents) THEN 0
    ELSE (CASE documents[i] = "small" -> 1
            [] documents[i] = "blankslide" -> 0
            [] OTHER -> 2) + SplitDocuments(documents, i + 1)

ChromaHandle == Some("Chroma")

\* The vector_store property: the handle, constructed on first use.  The
\* constructor opens the persisted collection, creating it if it is absent.
VectorStoreProperty(handle) == IF handle = None THEN ChromaHandle ELSE handle

\* clear_index on an indexer with this handle over a collection of `stored`
\* chunks: the collection is deleted only through an existing handle, and a
\* failure of the deletion is swallowed; the construction of the new handle
\* is outside the try, so its failure leaves clear_index as an exception.
ClearIndexEffect(stored, handle, deleteFails, constructFails) ==
    [collection |-> IF handle # None /\ ~deleteFails THEN 0 ELSE stored,
     vectorStore |-> IF constructFails THEN None ELSE VectorStoreProperty(None),
     raised |-> constructFails]

IndexResult(indexed, chunks, errors) ==
    [indexed_count |-> indexed, chunk_count |-> chunks, errors |-> errors]

\* Mutant of OrList: the default replaces the list.
OrListDefault(x, default) == default

\* x or default, for a list
OrList(x, default) == IF x # <<>> THEN x ELSE default

\* Mutant of NoChunksResult: the loaded documents are not counted.
NoChunksResultUncounted(documents) ==
    IndexResult(0, 0, <<"No chunks generated after splitting">>)

\* The IndexResult returned when the splitter gave no chunk.
NoChunksResult(documents) ==
    IndexResult(Len(documents), 0, <<"No chunks generated after splitting">>)

\* Mutant of AddFailedResult: the documents are credited although the add failed.
AddFailedResultCrediting(documents, chunks, errors, reason) ==
    IndexResult(Len(documents), chunks,
                Append(errors, "Error adding to vector store: " \o reason))

\* The IndexResult returned from the except branch around add_documents.
AddFailedResult(documents, chunks, errors, reason) ==
    IndexResult(0, 0, Append(errors, "Error adding to vector store: " \o reason))

\* Mutant of SuccessResult: chunk_count repeats the document count.
SuccessResultCountingDocuments(documents, chunks, errors) ==
    IndexResult(Len(documents), Len(documents), errors)

\* The IndexResult returned after a successful add.
SuccessResult(documents, chunks, errors) ==
    IndexResult(Len(documents), chunks, errors)

\* index_documents(docs_dir, clear_existing): the IndexResult returned, the
\* collection and handle it leaves, whether it raised, and the calls it made
\* to the splitter and to add_documents.
IndexDocumentsEffect(stored, handle, dir, clear, deleteFails, constructFails, addFails) ==
    LET start == IF clear
                 THEN ClearIndexEffect(stored, handle, deleteFails, constructFails)
                 ELSE [collection |-> stored, vectorStore |-> handle,
                       raised |-> FALSE]
        load == LoadDirectory(dir)
        errors == IF load.raised
                  THEN <<"Error loading documents: Directory does not exist">>
                  ELSE <<>>
        documents == load.docs
        chunks == SplitDocuments(documents, 1)
    IN  IF start.raised
        THEN [result |-> NoIndexResult, raised |-> TRUE,
              collection |-> start.collection, vectorStore |-> start.vectorStore,
              splitCalls |-> 0, addCalls |-> 0, addFailed |-> FALSE]
        ELSE IF documents = <<>>
        THEN [result |-> IndexResult(0, 0, OrList(errors, <<"No documents found">>)),
              raised |-> FALSE,
              collection |-> start.collection, vectorStore |-> start.vectorStore,
              splitCalls |-> 0, addCalls |-> 0, addFailed |-> FALSE]
        ELSE IF chunks = 0
        THEN [result |-> NoChunksResult(documents),
              raised |-> FALSE,
              collection |-> start.collection, vectorStore |-> start.vectorStore,
              splitCalls |-> 1, addCalls |-> 0, addFailed |-> FALSE]
        ELSE IF start.vectorStore = None /\ constructFails
        THEN [result |-> AddFailedResult(documents, chunks, errors, "constructor"),
              raised |-> FALSE,
              collection |-> start.collection, vectorStore |-> None,
              splitCalls |-> 1, addCalls |-> 0, addFailed |-> FALSE]
        ELSE IF addFails
        THEN [result |-> AddFailedResult(documents, chunks, errors, "backend"),
              raised |-> FALSE,
              collection |-> start.collection,
              vectorStore |-> VectorStoreProperty(start.vectorStore),
              splitCalls |-> 1, addCalls |-> 1, addFailed |-> TRUE]
        ELSE [result |-> SuccessResult(documents, chunks, errors),
              raised |-> FALSE,
              collection |-> start.collection + chunks,
              vectorStore |-> VectorStoreProperty(start.vectorStore),
              splitCalls |-> 1, addCalls |-> 1, addFailed |-> FALSE]

AllSmall(dir) == dir.exists /\ \A i \in DOMAIN dir.files : dir.files[i] = "small"

\* The operations during which the Chroma constructor runs and may raise.
Constructs(handle, dir, clear) ==
    clear \/ (handle = None /\ SplitDocuments(LoadDirectory(dir).docs, 1) > 0)

\* DocumentIndexer.index_documents
IndexDocuments ==
    \E dir \in Dirs, clear \in BOOLEAN :
    \E deleteFails \in (IF clear /\ vectorStore # None THEN BOOLEAN ELSE {FALSE}) :
    \E constructFails \in (IF Constructs(vectorStore, dir, clear)
                           THEN BOOLEAN ELSE {FALSE}) :
    \E addFails \in (IF SplitDocuments(LoadDirectory(dir).docs, 1) > 0
                        /\ ~constructFails
                     THEN BOOLEAN ELSE {FALSE}) :
    \E eff \in {IndexDocumentsEffect(collection, vectorStore, dir, clear,
                                     deleteFails, constructFails, addFails)} :
            /\ eff.collection <= MaxStored
            /\ collection' = eff.collection
            /\ vectorStore' = eff.vectorStore
            /\ lastResult' = eff.result
            /\ lastCount' = 0
            /\ lastRun' = Run(collection, FileErrors(dir.files, 1),
                              SplitDocuments(LoadDirectory(dir).docs, 1),
                              eff.splitCalls, eff.addCalls, eff.addFailed)
            /\ prevOp' = NoOp
            /\ lastOp' = Op("index", clear, Len(LoadDirectory(dir).docs),
                            AllSmall(dir),
                            addFails \/ constructFails \/ ~dir.exists,
                            eff.raised)
            /\ UNCHANGED <<backendVars, streamVars, runVars, queryVars, chatVars,
                   callVars>>

\* DocumentIndexer.clear_index
ClearIndex ==
    \E deleteFails \in (IF vectorStore # None THEN BOOLEAN ELSE {FALSE}) :
    \E constructFails \in BOOLEAN :
    \E eff \in {ClearIndexEffect(collection, vectorStore, deleteFails,
                                 constructFails)} :
            /\ collection' = eff.collection
            /\ vectorStore' = eff.vectorStore
            /\ lastResult' = NoIndexResult
            /\ lastCount' = 0
            /\ lastRun' = Run(collection, 0, 0, 0, 0, FALSE)
            /\ prevOp' = NoOp
            /\ lastOp' = Op("clear", FALSE, 0, FALSE, deleteFails, eff.raised)
            /\ UNCHANGED <<backendVars, streamVars, runVars, queryVars, chatVars,
                   callVars>>

\* Mutant of GetDocumentCountEffect: the handle is obtained outside the try.
GetDocumentCountEffectUnguarded(stored, handle, constructFails, countFails) ==
    IF handle = None /\ constructFails
    THEN [count |-> 0, raised |-> TRUE, collection |-> stored,
          vectorStore |-> None]
    ELSE [count |-> IF countFails THEN 0 ELSE stored, raised |-> FALSE,
          collection |-> stored, vectorStore |-> VectorStoreProperty(handle)]

\* get_document_count on an indexer with this handle over a collection of
\* `stored` chunks: the handle is obtained and the collection counted inside
\* one try, and any exception gives 0.
GetDocumentCountEffect(stored, handle, constructFails, countFails) ==
    IF handle = None /\ constructFails
    THEN [count |-> 0, raised |-> FALSE, collection |-> stored,
          vectorStore |-> None]
    ELSE [count |-> IF countFails THEN 0 ELSE stored, raised |-> FALSE,
          collection |-> stored, vectorStore |-> VectorStoreProperty(handle)]

\* DocumentIndexer.get_document_count, the status() of the index.
GetDocumentCount ==
    \E constructFails \in (IF vectorStore = None THEN BOOLEAN ELSE {FALSE}) :
    \E countFails \in (IF constructFails THEN {FALSE} ELSE BOOLEAN) :
    \E eff \in {GetDocumentCountEffect(collection, vectorStore,
                                       constructFails, countFails)} :
            /\ collection' = eff.collection
            /\ vectorStore' = eff.vectorStore
            /\ lastCount' = eff.count
            /\ lastResult' = NoIndexResult
            /\ lastRun' = Run(collection, 0, 0, 0, 0, FALSE)
            /\ prevOp' = lastOp
            /\ lastOp' = Op("status", FALSE, 0, FALSE,
                            countFails \/ constructFails, eff.raised)
            /\ UNCHANGED <<backendVars, streamVars, runVars, queryVars, chatVars,
                   callVars>>

\* A DocumentIndexer just constructed over a persisted collection that may
\* already hold chunks: no handle yet.
InitIndex ==
    /\ collection \in 0..MaxStored
    /\ vectorStore = None
    /\ prevOp = NoOp /\ lastOp = NoOp
    /\ lastCount = 0 /\ lastResult = NoIndexResult /\ lastRun = NoRun
    /\ PipelineIdle
    /\ QueryIdle
    /\ ChatIdle
    /\ CallsIdle

NextIndex ==
    \/ IndexDocuments
    \/ ClearIndex
    \/ GetDocumentCount

SpecIndex == InitIndex /\ [][NextIndex]_vars

-----------------------------------------------------------------------------
\* api/routers/rag.py rag_chat_stream (POST /api/rag/chat/stream)

\* The two chat endpoints.
Endpoints == {"chat", "chat/stream"}

\* request.session_id: absent, the empty string, another string that is not
\* a UUID, the UUID of no session, the UUID of a session.
SessionRequests == {"none", "empty", "malformed", "unknown", "valid"}

\* `if request.session_id:` is false for None and for "", and the request is
\* then served without a session.
NoSession == {"none", "empty"}

\* request.messages[-1].content
Query == "q"

\* A chat_messages row as ChatRepository.add_message writes it; a source list
\* that is empty or absent is stored as no sources_json.
AddMessage(role, content, sources, model, provider) ==
    [role |-> role, content |-> content,
     sources_json |-> IF sources = <<>> THEN None ELSE Some(sources),
     model |-> model, provider |-> provider]

\* The five fields of each source, as the SSE payloads and the row carry them.
SourceDicts(sources) ==
    [i \in DOMAIN sources |->
        [filename |-> sources[i].filename, page |-> sources[i].page,
         slide |-> sources[i].slide, sheet |-> sources[i].sheet,
         score |-> sources[i].score]]

\* response[len(last_response):]
SliceFrom(response, n) == SubSeq(response, n + 1, Len(response))

MetaEvent ==
    [event |-> "meta", model |-> LlmModel, provider |-> ragSettings.llm_provider,
     session_id |-> IF sessionReq = "valid" THEN Some(sessionReq) ELSE None]
SseSources(update) == [event |-> "sources", sources |-> SourceDicts(update.sources)]
SseChunk(text) == [event |-> "chunk", text |-> text]
SseDone(update) ==
    [event |-> "done", response |-> update.response,
     sources |-> SourceDicts(update.sources),
     model |-> update.model, provider |-> update.provider]
ErrorEvent == [event |-> "error", code |-> "GENERATION_FAILED"]

\* Mutant of ChatRejects: the user message is saved before the validation.
ChatRejectsAfterSaving ==
    /\ pcE = "REQUEST"
    /\ sessionReq \in {"malformed", "unknown"}
    /\ messages' = Append(messages, AddMessage("user", Query, <<>>, None, None))
    /\ pcE' = IF sessionReq = "malformed" THEN "HTTP400" ELSE "HTTP404"
    /\ UNCHANGED <<endpoint, sessionReq, sse, consumed, sourcesSent, lastResponse,
                   finalResponse, backendVars, streamVars, runVars,
                   queryVars, indexVars, callVars>>

\* Either endpoint: the session id fails validation, and the request ends
\* with HTTPException 400 or 404 before anything else is done.
ChatRejects ==
    /\ pcE = "REQUEST"
    /\ sessionReq \in {"malformed", "unknown"}
    /\ pcE' = IF sessionReq = "malformed" THEN "HTTP400" ELSE "HTTP404"
    /\ UNCHANGED <<endpoint, sessionReq, sse, consumed, sourcesSent, lastResponse,
                   finalResponse, messages, backendVars, streamVars, runVars,
                   queryVars, indexVars, callVars>>

\* The request is accepted; with a session its user message is committed.
ChatAccepts ==
    /\ pcE = "REQUEST"
    /\ endpoint = "chat/stream"
    /\ sessionReq \in NoSession \cup {"valid"}
    /\ messages' = IF sessionReq = "valid"
                   THEN Append(messages, AddMessage("user", Query, <<>>, None, None))
                   ELSE messages
    /\ pcE' = "ACCEPTED"
    /\ UNCHANGED <<endpoint, sessionReq, sse, consumed, sourcesSent, lastResponse,
                   finalResponse, backendVars, streamVars, runVars, queryVars,
                   indexVars, callVars>>

\* The database raises while the user message is saved: the request ends
\* with the exception, and no pipeline runs.
ChatAcceptFails ==
    /\ pcE = "REQUEST"
    /\ sessionReq = "valid"
    /\ pcE' = "HTTP500"
    /\ UNCHANGED <<endpoint, sessionReq, sse, consumed, sourcesSent, lastResponse,
                   finalResponse, messages, backendVars, streamVars, runVars,
                   queryVars, indexVars, callVars>>

\* event_generator up to its first yield: the meta event.
ChatMeta ==
    /\ pcE = "ACCEPTED"
    /\ sse' = <<MetaEvent>>
    /\ pcE' = "STREAMING"
    /\ UNCHANGED <<endpoint, sessionReq, consumed, sourcesSent, lastResponse, finalResponse,
                   messages, backendVars, streamVars, runVars, queryVars,
                   indexVars, callVars>>

\* event_generator is suspended in `async for update in stream_rag(...)`,
\* every update yielded so far handled: stream_rag runs.
Pulling == pcE = "STREAMING" /\ consumed = Len(events)

\* Mutant of HandleUpdate: a chunk update is forwarded whole.
HandleUpdateWhole(update) ==
    CASE update.event = "sources" ->
            [sse |-> IF sourcesSent THEN sse ELSE Append(sse, SseSources(update)),
             sourcesSent |-> TRUE,
             lastResponse |-> lastResponse, finalResponse |-> finalResponse]
      [] update.event = "chunk" ->
            [sse |-> Append(sse, SseChunk(update.response)),
             sourcesSent |-> sourcesSent,
             lastResponse |-> update.response, finalResponse |-> finalResponse]
      [] update.event = "done" ->
            [sse |-> Append(sse, SseDone(update)),
             sourcesSent |-> sourcesSent,
             lastResponse |-> lastResponse, finalResponse |-> update.response]

\* The body of event_generator's loop for one update of stream_rag.
HandleUpdate(update) ==
    CASE update.event = "sources" ->
            [sse |-> IF sourcesSent THEN sse ELSE Append(sse, SseSources(update)),
             sourcesSent |-> TRUE,
             lastResponse |-> lastResponse, finalResponse |-> finalResponse]
      [] update.event = "chunk" ->
            [sse |-> IF update.response # lastResponse
                        /\ SliceFrom(update.response, Len(lastResponse)) # <<>>
                     THEN Append(sse, SseChunk(SliceFrom(update.response,
                                                         Len(lastResponse))))
                     ELSE sse,
             sourcesSent |-> sourcesSent,
             lastResponse |-> update.response, finalResponse |-> finalResponse]
      [] update.event = "done" ->
            [sse |-> Append(sse, SseDone(update)),
             sourcesSent |-> sourcesSent,
             lastResponse |-> lastResponse, finalResponse |-> update.response]

\* event_generator handles the update stream_rag has just yielded.
ChatHandle ==
    /\ pcE = "STREAMING"
    /\ consumed < Len(events)
    /\ \E h \in {HandleUpdate(events[consumed + 1])} :
        /\ sse' = h.sse
        /\ sourcesSent' = h.sourcesSent
        /\ lastResponse' = h.lastResponse
        /\ finalResponse' = h.finalResponse
    /\ consumed' = consumed + 1
    /\ UNCHANGED <<endpoint, pcE, sessionReq, messages, backendVars, streamVars, runVars,
                   queryVars, indexVars, callVars>>

\* The assistant message is saved when there is a session and a response.
Persists == sessionReq = "valid" /\ finalResponse # <<>>

\* Mutant of ChatStreamError: the partial response is saved with the error.
ChatStreamErrorSavingPartial ==
    /\ pcE = "STREAMING"
    /\ pcS = "FAILED"
    /\ consumed = Len(events)
    /\ sse' = Append(sse, ErrorEvent)
    /\ messages' = IF sessionReq = "valid"
                   THEN Append(messages, AddMessage("assistant", lastResponse, <<>>,
                                                    None, None))
                   ELSE messages
    /\ pcE' = "CLOSED"
    /\ UNCHANGED <<endpoint, sessionReq, consumed, sourcesSent, lastResponse, finalResponse,
                   backendVars, streamVars, runVars, queryVars, indexVars,
                   callVars>>

\* stream_rag raised: the except branch yields the error event.
ChatStreamError ==
    /\ pcE = "STREAMING"
    /\ pcS = "FAILED"
    /\ consumed = Len(events)
    /\ sse' = Append(sse, ErrorEvent)
    /\ pcE' = "CLOSED"
    /\ UNCHANGED <<endpoint, sessionReq, consumed, sourcesSent, lastResponse, finalResponse,
                   messages, backendVars, streamVars, runVars, queryVars,
                   indexVars, callVars>>

\* stream_rag is exhausted: the assistant message is committed, if any, with
\* the sources, model and provider captured from the done update.
ChatPersist ==
    /\ pcE = "STREAMING"
    /\ pcS = "DONE"
    /\ consumed = Len(events)
    /\ messages' = IF Persists
                   THEN Append(messages,
                               AddMessage("assistant", finalResponse,
                                          SourceDicts(events[Len(events)].sources),
                                          Some(events[Len(events)].model),
                                          Some(events[Len(events)].provider)))
                   ELSE messages
    /\ pcE' = "CLOSED"
    /\ UNCHANGED <<endpoint, sessionReq, sse, consumed, sourcesSent, lastResponse,
                   finalResponse, backendVars, streamVars, runVars, queryVars,
                   indexVars, callVars>>

\* The database raises while the assistant message is saved: the same except
\* branch yields the error event, after the done event.
ChatPersistFails ==
    /\ pcE = "STREAMING"
    /\ pcS = "DONE"
    /\ consumed = Len(events)
    /\ Persists
    /\ sse' = Append(sse, ErrorEvent)
    /\ pcE' = "CLOSED"
    /\ UNCHANGED <<endpoint, sessionReq, consumed, sourcesSent, lastResponse, finalResponse,
                   messages, backendVars, streamVars, runVars, queryVars,
                   indexVars, callVars>>

\* rag_chat: the request is accepted; with a session its user message is
\* added to the database session, uncommitted, and run_rag starts.
BufferedAccepts ==
    /\ pcE = "REQUEST"
    /\ endpoint = "chat"
    /\ sessionReq \in NoSession \cup {"valid"}
    /\ pcE' = "RUNNING"
    /\ UNCHANGED <<endpoint, sessionReq, sse, consumed, sourcesSent, lastResponse,
                   finalResponse, messages, backendVars, streamVars, runVars,
                   queryVars, indexVars, callVars>>

\* rag_chat is suspended in `await run_rag(...)`: the graph runs.
Running == pcE = "RUNNING"

\* The rows committed by a request that ends with an exception after its
\* user message was added: the database session dependency, which is not part
\* of the endpoint, commits the pending row or rolls it back.
AfterException ==
    IF sessionReq = "valid"
    THEN {messages, Append(messages, AddMessage("user", Query, <<>>, None, None))}
    ELSE {messages}

\* run_rag returned: with a session the assistant message is added and both
\* messages are committed; the response is returned.
BufferedResponds ==
    /\ pcE = "RUNNING"
    /\ pcR = "GENERATED"
    /\ messages' =
          IF sessionReq = "valid"
          THEN messages \o
               <<AddMessage("user", Query, <<>>, None, None),
                 AddMessage("assistant", runState.response,
                            SourceDicts(runState.sources),
                            Some(runState.model), Some(runState.provider))>>
          ELSE messages
    /\ pcE' = "HTTP200"
    /\ UNCHANGED <<endpoint, sessionReq, sse, consumed, sourcesSent, lastResponse,
                   finalResponse, backendVars, streamVars, runVars, queryVars,
                   indexVars, callVars>>

\* The database raises while the assistant message is saved or committed.
BufferedSaveFails ==
    /\ pcE = "RUNNING"
    /\ pcR = "GENERATED"
    /\ sessionReq = "valid"
    /\ messages' \in AfterException
    /\ pcE' = "HTTP500"
    /\ UNCHANGED <<endpoint, sessionReq, sse, consumed, sourcesSent, lastResponse,
                   finalResponse, backendVars, streamVars, runVars, queryVars,
                   indexVars, callVars>>

\* run_rag raised: HTTPException(status_code=500).
BufferedRunError ==
    /\ pcE = "RUNNING"
    /\ pcR = "FAILED"
    /\ messages' \in AfterException
    /\ pcE' = "HTTP500"
    /\ UNCHANGED <<endpoint, sessionReq, sse, consumed, sourcesSent, lastResponse,
                   finalResponse, backendVars, streamVars, runVars, queryVars,
                   indexVars, callVars>>

\* One request to one of the chat endpoints, over one backend script, one
\* index content and one configuration.
InitChat ==
    /\ backend \in SeqUpTo(DeltaContents, MaxDeltas)
    /\ backendFull = StrContent(ScriptText(backend, Len(backend)))
    /\ searchHits \in PipelineHitLists
    /\ ragSettings \in Settings
    /\ endpoint \in Endpoints
    /\ pcS = (IF endpoint = "chat/stream" THEN "INITIAL" ELSE "idle")
    /\ events = <<>> /\ units = <<>> /\ accumulated = <<>>
    /\ pos = 0 /\ sResult = NoResult /\ sHits = <<>> /\ retrieveCalls = 0
    /\ llmCalls = 0
    /\ pcR = (IF endpoint = "chat" THEN "INITIAL" ELSE "idle")
    /\ runState = InitialState(FALSE) /\ rHitsUsed = <<>>
    /\ pcE = "REQUEST" /\ sessionReq \in SessionRequests
    /\ sse = <<>> /\ consumed = 0 /\ sourcesSent = FALSE
    /\ lastResponse = <<>> /\ finalResponse = <<>> /\ messages = <<>>
    /\ QueryIdle
    /\ IndexIdle
    /\ CallsIdle

NextChat ==
    \/ ChatRejects
    \/ ChatAccepts
    \/ ChatAcceptFails
    \/ ChatMeta
    \/ Pulling /\ StreamRetrieve
    \/ Pulling /\ StreamRetrieveFails
    \/ Pulling /\ StreamDelta
    \/ Pulling /\ StreamFinalUnit
    \/ Pulling /\ StreamDone
    \/ Pulling /\ StreamBackendFails
    \/ Pulling /\ StreamCreateLlmFails
    \/ ChatHandle
    \/ ChatStreamError
    \/ ChatPersist
    \/ ChatPersistFails
    \/ BufferedAccepts
    \/ Running /\ RunRetrieve
    \/ Running /\ RunGenerate
    \/ Running /\ RunFails
    \/ BufferedResponds
    \/ BufferedSaveFails
    \/ BufferedRunError

SpecChat == InitChat /\ [][NextChat]_vars

-----------------------------------------------------------------------------
\* rag/chain.py run_rag / stream_rag: the messages of the initial state, and
\* the query and history the chat endpoints pass

\* The roles and contents of the model's messages.  The request schema admits
\* only the roles user and assistant; a direct caller of run_rag may pass
\* any role.
RequestRoles == {"user", "assistant"}
HistoryRoles == RequestRoles \cup {"system"}
Contents == {"a", "b"}
Turn(role, content) == [role |-> role, content |-> content]

HumanMessage(content) == [type |-> "human", content |-> content]
AIMessage(content) == [type |-> "ai", content |-> content]

\* The loop over chat_history[i..]: a user turn gives a HumanMessage, an
\* assistant turn an AIMessage, a turn of any other role nothing.
RECURSIVE HistoryMessages(_, _)
HistoryMessages(history, i) ==
    IF i > Len(history) THEN <<>>
    ELSE (CASE history[i].role = "user" -> <<HumanMessage(history[i].content)>>
            [] history[i].role = "assistant" -> <<AIMessage(history[i].content)>>
            [] OTHER -> <<>>) \o HistoryMessages(history, i + 1)

\* Mutant of BuildMessages: the query is put before the history.
BuildMessagesQueryFirst(history, query) ==
    <<HumanMessage(query)>> \o HistoryMessages(history, 1)

\* messages: the history's messages, then the query as a HumanMessage.
BuildMessages(history, query) ==
    Append(HistoryMessages(history, 1), HumanMessage(query))

\* The endpoints: query = request.messages[-1].content and chat_history =
\* the role and content of request.messages[:-1].
TransportCall ==
    /\ pcM = "input"
    /\ request # <<>>
    /\ ragQuery' = request[Len(request)].content
    /\ ragHistory' = [i \in 1..(Len(request) - 1) |->
                         Turn(request[i].role, request[i].content)]
    /\ pcM' = "called"
    /\ UNCHANGED <<request, ragMessages, backendVars, streamVars, runVars,
                   queryVars, indexVars, chatVars, splitterVars,
                   loaderVars, handleVars, loopVars>>

\* run_rag or stream_rag called by other code, with any history.
DirectCall ==
    /\ pcM = "input"
    /\ request = <<>>
    /\ \E history \in SeqUpTo([role : HistoryRoles, content : Contents], MaxTurns),
          query \in Contents :
            /\ ragHistory' = history
            /\ ragQuery' = query
    /\ pcM' = "called"
    /\ UNCHANGED <<request, ragMessages, backendVars, streamVars, runVars,
                   queryVars, indexVars, chatVars, splitterVars,
                   loaderVars, handleVars, loopVars>>

\* run_rag / stream_rag up to the initial state.
RagBuildsMessages ==
    /\ pcM = "called"
    /\ ragMessages' = BuildMessages(ragHistory, ragQuery)
    /\ pcM' = "built"
    /\ UNCHANGED <<request, ragQuery, ragHistory, backendVars, streamVars,
                   runVars, queryVars, indexVars, chatVars, splitterVars,
                   loaderVars, handleVars, loopVars>>

\* One call of the pipeline: through an endpoint with a request of at most
\* MaxTurns earlier turns, or directly (no request).
InitMessages ==
    /\ pcM = "input"
    /\ request \in SeqUpTo([role : RequestRoles, content : Contents], MaxTurns + 1)
    /\ ragQuery = "" /\ ragHistory = <<>> /\ ragMessages = <<>>
    /\ SplitterIdle
    /\ LoaderIdle
    /\ HandleIdle
    /\ PipelineIdle
    /\ QueryIdle
    /\ IndexIdle
    /\ ChatIdle
    /\ LoopIdle

NextMessages ==
    \/ TransportCall
    \/ DirectCall
    \/ RagBuildsMessages

SpecMessages == InitMessages /\ [][NextMessages]_vars

-----------------------------------------------------------------------------
\* rag/splitter.py create_text_splitter

\* rag_settings.chunk_size and rag_settings.chunk_overlap as shipped.
ChunkSize == 1000
ChunkOverlap == 200
DefaultChunkSettings == [chunk_size |-> ChunkSize, chunk_overlap |-> ChunkOverlap]

\* The settings of the model: the shipped ones, or small ones from the
\* environment with an overlap smaller than the size.
ChunkSettings ==
    {DefaultChunkSettings} \cup
    {cs \in [chunk_size : 1..MaxChunk, chunk_overlap : 0..MaxChunk] :
        cs.chunk_overlap < cs.chunk_size}

\* An argument of create_text_splitter: None (not supplied) or an int.
ChunkArgs == {None} \cup {Some(n) : n \in 0..MaxChunk}

\* Python's "arg or default" for an int | None: the default is taken for None
\* and for 0.
OrInt(arg, default) == IF arg = None \/ arg[1] = 0 THEN default ELSE arg[1]

\* The chunk_size and chunk_overlap RecursiveCharacterTextSplitter is built with.
CreateTextSplitterConfig(settings, size, overlap) ==
    [chunk_size |-> OrInt(size, settings.chunk_size),
     chunk_overlap |-> OrInt(overlap, settings.chunk_overlap)]

CreateTextSplitter ==
    /\ pcT = "input"
    /\ splitter' = CreateTextSplitterConfig(chunkSettings, splitterArgs.chunk_size,
                                            splitterArgs.chunk_overlap)
    /\ pcT' = "created"
    /\ UNCHANGED <<chunkSettings, splitterArgs, backendVars, streamVars, runVars,
                   queryVars, indexVars, chatVars, messageVars,
                   loaderVars, handleVars, loopVars>>

InitSplitter ==
    /\ pcT = "input"
    /\ chunkSettings \in ChunkSettings
    /\ splitterArgs \in [chunk_size : ChunkArgs, chunk_overlap : ChunkArgs]
    /\ splitter = <<>>
    /\ MessagesIdle
    /\ LoaderIdle
    /\ HandleIdle
    /\ PipelineIdle
    /\ QueryIdle
    /\ IndexIdle
    /\ ChatIdle
    /\ LoopIdle

NextSplitter == CreateTextSplitter

SpecSplitter == InitSplitter /\ [][NextSplitter]_vars

-----------------------------------------------------------------------------
\* rag/loaders.py load_document and the five loaders

\* Texts are sequences of characters; "x" stands for any character that is
\* not whitespace.
Whitespace == {" ", "\n", "\t"}
Texts == {<<>>, <<" ">>, <<"x">>}

\* str.strip() of the text is empty.
StripIsEmpty(text) == \A i \in DOMAIN text : text[i] \in Whitespace

\* sep.join(texts)
RECURSIVE Join(_, _)
Join(sep, texts) ==
    IF texts = <<>> THEN <<>>
    ELSE IF Len(texts) = 1 THEN texts[1]
    ELSE texts[1] \o <<sep>> \o Join(sep, Tail(texts))

\* [t for t in texts if t]
Truthies(texts) == SelectSeq(texts, LAMBDA t : t # <<>>)

\* A file is its extension and its parts in order, each part a sequence of
\* texts: the text of a .txt file (one part of one text), the pages of a pdf
\* (one text each), the paragraphs of a docx (one part), the shapes of each
\* slide of a pptx, the rows of each sheet of an xlsx (row_text of each row).
Extensions == {".txt", ".pdf", ".docx", ".pptx", ".xlsx", ".md"}
Parts == SeqUpTo(SeqUpTo(Texts, MaxTexts), MaxParts)
FilesOf(ext) ==
    CASE ext = ".txt" -> {<<<<t>>>> : t \in Texts}
      [] ext = ".pdf" -> {ps \in Parts : \A i \in DOMAIN ps : Len(ps[i]) = 1}
      [] ext = ".docx" -> {ps \in Parts : Len(ps) = 1}
      [] OTHER -> Parts

Document(text, part) == [page_content |-> text, part |-> part]

\* The Documents of the parts i.. that have a text (texts[i] is None for a
\* part the loader skips).
RECURSIVE DocumentsFrom(_, _)
DocumentsFrom(texts, i) ==
    IF i > Len(texts) THEN <<>>
    ELSE (IF texts[i] = None THEN <<>> ELSE <<Document(texts[i][1], i)>>)
         \o DocumentsFrom(texts, i + 1)

\* load_txt and each page of load_pdf: the text, unless its strip() is empty.
StrippedText(part) == IF StripIsEmpty(part[1]) THEN None ELSE Some(part[1])
LoadTxt(parts) == DocumentsFrom([i \in DOMAIN parts |-> StrippedText(parts[i])], 1)
LoadPdf(parts) == DocumentsFrom([i \in DOMAIN parts |-> StrippedText(parts[i])], 1)

\* load_docx: the non-empty paragraphs joined by newlines, unless the strip()
\* of that is empty.
DocxText(paragraphs) ==
    IF StripIsEmpty(Join("\n", Truthies(paragraphs))) THEN None
    ELSE Some(Join("\n", Truthies(paragraphs)))
LoadDocx(parts) == DocumentsFrom([i \in DOMAIN parts |-> DocxText(parts[i])], 1)

\* load_pptx: one Document per slide that has a shape with non-empty text, the
\* shape texts joined by newlines.
SlideText(shapes) ==
    IF Truthies(shapes) = <<>> THEN None ELSE Some(Join("\n", Truthies(shapes)))
LoadPptx(parts) == DocumentsFrom([i \in DOMAIN parts |-> SlideText(parts[i])], 1)

\* load_xlsx: one Document per sheet that has a row whose row_text.strip() is
\* not empty, those rows joined by newlines.
NonBlankRows(rows) == SelectSeq(rows, LAMBDA r : ~StripIsEmpty(r))
SheetText(rows) ==
    IF NonBlankRows(rows) = <<>> THEN None ELSE Some(Join("\n", NonBlankRows(rows)))
LoadXlsx(parts) == DocumentsFrom([i \in DOMAIN parts |-> SheetText(parts[i])], 1)

\* LOADER_MAP[ext](file_path)
LoaderMap(ext, parts) ==
    CASE ext = ".txt" -> LoadTxt(parts)
      [] ext = ".pdf" -> LoadPdf(parts)
      [] ext = ".docx" -> LoadDocx(parts)
      [] ext = ".pptx" -> LoadPptx(parts)
      [] ext = ".xlsx" -> LoadXlsx(parts)

SupportedExtensions == {".txt", ".pdf", ".docx", ".pptx", ".xlsx"}

\* load_document: the loader of the extension, or ValueError.
LoadDocument ==
    /\ pcL = "input"
    /\ file.ext \in SupportedExtensions
    /\ loaded' = LoaderMap(file.ext, file.parts)
    /\ pcL' = "loaded"
    /\ UNCHANGED <<file, backendVars, streamVars, runVars, queryVars, indexVars,
                   chatVars, messageVars, splitterVars, handleVars, loopVars>>

LoadDocumentUnsupported ==
    /\ pcL = "input"
    /\ file.ext \notin SupportedExtensions
    /\ pcL' = "raised"
    /\ UNCHANGED <<file, loaded, backendVars, streamVars, runVars, queryVars,
                   indexVars, chatVars, messageVars, splitterVars,
                   handleVars, loopVars>>

InitLoader ==
    /\ pcL = "input"
    /\ \E ext \in Extensions : \E parts \in FilesOf(ext) :
          file = [ext |-> ext, parts |-> parts]
    /\ loaded = <<>>
    /\ MessagesIdle
    /\ SplitterIdle
    /\ HandleIdle
    /\ PipelineIdle
    /\ QueryIdle
    /\ IndexIdle
    /\ ChatIdle
    /\ LoopIdle

NextLoader ==
    \/ LoadDocument
    \/ LoadDocumentUnsupported

SpecLoader == InitLoader /\ [][NextLoader]_vars

-----------------------------------------------------------------------------
\* rag/indexer.py get_indexer and the vector_store handle; rag/retriever.py
\* get_retriever and the handle a retrieval uses.  Instances and handles are
\* numbered in the order of their construction.

\* get_indexer: the default indexer, constructed on the first call.  The
\* constructor (get_default_embeddings) may raise; _default_indexer is then
\* still None.
GetIndexerEffect(indexer, made, ctorFails) ==
    IF indexer # None
    THEN [indexer |-> indexer, made |-> made, fresh |-> FALSE, raised |-> FALSE]
    ELSE IF ctorFails
    THEN [indexer |-> None, made |-> made, fresh |-> FALSE, raised |-> TRUE]
    ELSE [indexer |-> Some(made + 1), made |-> made + 1, fresh |-> TRUE,
          raised |-> FALSE]

\* The vector_store property on an indexer whose _vector_store is `handle`,
\* after `made` handles were constructed, `since` of them since the last
\* clear_index began.
VectorStoreHandle(handle, made, since, constructFails) ==
    IF handle # None
    THEN [store |-> handle, made |-> made, since |-> since, raised |-> FALSE]
    ELSE IF constructFails
    THEN [store |-> None, made |-> made, since |-> since, raised |-> TRUE]
    ELSE [store |-> Some(made + 1), made |-> made + 1, since |-> since + 1,
          raised |-> FALSE]

\* Mutant of ClearStore: _vector_store is not reset after the deletion.
ClearStoreKeeping(handle, made, constructFails) ==
    VectorStoreHandle(handle, made, 0, constructFails)

\* clear_index: the collection is deleted through the handle if there is one,
\* _vector_store is reset, and the property constructs a new handle.
ClearStore(handle, made, constructFails) ==
    VectorStoreHandle(None, made, 0, constructFails)

\* The handles clear_index has set aside.
Dropped(handle) == IF handle = None THEN {} ELSE {handle[1]}

\* The part every operation begins with: get_indexer().
GetIndexerFails == IF defaultIndexer = None THEN BOOLEAN ELSE {FALSE}

\* The _vector_store of the indexer get_indexer returns: None when it has
\* just been constructed.
StoreOf(g) == IF g.fresh THEN None ELSE store

\* get_indexer() alone.
CallGetIndexer ==
    \E ctorFails \in GetIndexerFails :
    \E g \in {GetIndexerEffect(defaultIndexer, indexersMade, ctorFails)} :
        /\ defaultIndexer' = g.indexer
        /\ indexersMade' = g.made
        /\ got' = IF g.raised THEN got ELSE got \cup {g.indexer[1]}
        /\ store' = StoreOf(g)
        /\ lastCall' = "get_indexer"
        /\ UNCHANGED <<defaultRetriever, storeUsed, handlesMade, sinceClear,
                       dropped, lastClear, clearMade, used>>
        /\ UNCHANGED <<backendVars, streamVars, runVars, queryVars, indexVars,
                       chatVars, messageVars, splitterVars, loaderVars,
                       loopVars>>

\* The clear endpoint: get_indexer().clear_index().
CallClear ==
    /\ handlesMade < MaxHandles
    /\ \E ctorFails \in GetIndexerFails, constructFails \in BOOLEAN :
       \E g \in {GetIndexerEffect(defaultIndexer, indexersMade, ctorFails)} :
       \E c \in {ClearStore(StoreOf(g), handlesMade, constructFails)} :
        /\ defaultIndexer' = g.indexer
        /\ indexersMade' = g.made
        /\ got' = IF g.raised THEN got ELSE got \cup {g.indexer[1]}
        /\ lastCall' = "clear"
        /\ IF g.raised
           THEN UNCHANGED <<store, storeUsed, handlesMade, sinceClear, dropped,
                            lastClear, clearMade>>
           ELSE /\ storeUsed' = TRUE
                /\ store' = c.store
                /\ handlesMade' = c.made
                /\ sinceClear' = c.since
                /\ dropped' = dropped \cup Dropped(StoreOf(g))
                /\ lastClear' = IF c.raised THEN "raised" ELSE "returned"
                /\ clearMade' = c.store
        /\ UNCHANGED <<defaultRetriever, used>>
        /\ UNCHANGED <<backendVars, streamVars, runVars, queryVars, indexVars,
                       chatVars, messageVars, splitterVars, loaderVars,
                       loopVars>>

\* The index endpoint: get_indexer().index_documents(clear=...).  With
\* clear it begins with clear_index; the handle is then used only when there
\* are chunks to add.
CallIndex ==
    /\ handlesMade < MaxHandles
    /\ \E ctorFails \in GetIndexerFails, clear \in BOOLEAN, chunks \in BOOLEAN,
          constructFails \in BOOLEAN :
       \E g \in {GetIndexerEffect(defaultIndexer, indexersMade, ctorFails)} :
       \E c \in {IF clear THEN ClearStore(StoreOf(g), handlesMade, constructFails)
                 ELSE [store |-> StoreOf(g), made |-> handlesMade,
                       since |-> sinceClear, raised |-> FALSE]} :
       \E a \in {IF chunks /\ ~c.raised
                 THEN VectorStoreHandle(c.store, c.made, c.since, constructFails)
                 ELSE c} :
        /\ defaultIndexer' = g.indexer
        /\ indexersMade' = g.made
        /\ got' = IF g.raised THEN got ELSE got \cup {g.indexer[1]}
        /\ lastCall' = "index"
        /\ IF g.raised
           THEN UNCHANGED <<store, storeUsed, handlesMade, sinceClear, dropped,
                            lastClear, clearMade>>
           ELSE /\ storeUsed' = (storeUsed \/ clear \/ chunks)
                /\ store' = a.store
                /\ handlesMade' = a.made
                /\ sinceClear' = a.since
                /\ IF clear
                   THEN /\ dropped' = dropped \cup Dropped(StoreOf(g))
                        /\ lastClear' = IF c.raised THEN "raised" ELSE "returned"
                        /\ clearMade' = c.store
                   ELSE UNCHANGED <<dropped, lastClear, clearMade>>
        /\ UNCHANGED <<defaultRetriever, used>>
        /\ UNCHANGED <<backendVars, streamVars, runVars, queryVars, indexVars,
                       chatVars, messageVars, splitterVars, loaderVars,
                       loopVars>>

\* The status endpoint: get_indexer().get_document_count(), which reads the
\* vector_store property.
CallStatus ==
    /\ handlesMade < MaxHandles
    /\ \E ctorFails \in GetIndexerFails, constructFails \in BOOLEAN :
       \E g \in {GetIndexerEffect(defaultIndexer, indexersMade, ctorFails)} :
       \E a \in {VectorStoreHandle(StoreOf(g), handlesMade, sinceClear,
                                   constructFails)} :
        /\ defaultIndexer' = g.indexer
        /\ indexersMade' = g.made
        /\ got' = IF g.raised THEN got ELSE got \cup {g.indexer[1]}
        /\ lastCall' = "status"
        /\ IF g.raised
           THEN UNCHANGED <<store, storeUsed, handlesMade, sinceClear>>
           ELSE /\ storeUsed' = TRUE
                /\ store' = a.store
                /\ handlesMade' = a.made
                /\ sinceClear' = a.since
        /\ UNCHANGED <<defaultRetriever, dropped, lastClear, clearMade, used>>
        /\ UNCHANGED <<backendVars, streamVars, runVars, queryVars, indexVars,
                       chatVars, messageVars, splitterVars, loaderVars,
                       loopVars>>

\* A retrieval: get_retriever() (whose constructor keeps get_indexer()), then
\* retrieve reads the vector_store property of that indexer and searches with
\* the handle.
CallRetrieve ==
    /\ handlesMade < MaxHandles
    /\ \E ctorFails \in (IF defaultRetriever = None THEN GetIndexerFails
                         ELSE {FALSE}),
          constructFails \in BOOLEAN :
       \E g \in {IF defaultRetriever = None
                 THEN GetIndexerEffect(defaultIndexer, indexersMade, ctorFails)
                 ELSE [indexer |-> defaultRetriever, made |-> indexersMade,
                       fresh |-> FALSE, raised |-> FALSE]} :
       \E a \in {VectorStoreHandle(StoreOf(g), handlesMade, sinceClear,
                                   constructFails)} :
        /\ defaultIndexer' = IF defaultRetriever = None THEN g.indexer
                             ELSE defaultIndexer
        /\ indexersMade' = g.made
        /\ got' = IF g.raised \/ defaultRetriever # None THEN got
                  ELSE got \cup {g.indexer[1]}
        /\ defaultRetriever' = IF g.raised THEN None ELSE g.indexer
        /\ lastCall' = "retrieve"
        /\ IF g.raised
           THEN /\ used' = None
                /\ UNCHANGED <<store, storeUsed, handlesMade, sinceClear>>
           ELSE /\ storeUsed' = TRUE
                /\ store' = a.store
                /\ handlesMade' = a.made
                /\ sinceClear' = a.since
                /\ used' = a.store
        /\ UNCHANGED <<dropped, lastClear, clearMade>>
        /\ UNCHANGED <<backendVars, streamVars, runVars, queryVars, indexVars,
                       chatVars, messageVars, splitterVars, loaderVars,
                       loopVars>>

\* The process before the first call: no indexer, no retriever, no handle.
InitHandle ==
    /\ defaultIndexer = None /\ indexersMade = 0 /\ got = {}
    /\ defaultRetriever = None
    /\ store = None /\ handlesMade = 0 /\ sinceClear = 0 /\ dropped = {}
    /\ storeUsed = FALSE
    /\ lastClear = "none" /\ clearMade = None /\ used = None
    /\ lastCall = "none"
    /\ MessagesIdle
    /\ SplitterIdle
    /\ LoaderIdle
    /\ PipelineIdle
    /\ QueryIdle
    /\ IndexIdle
    /\ ChatIdle
    /\ LoopIdle

NextHandle ==
    \/ CallGetIndexer
    \/ CallClear
    \/ CallIndex
    \/ CallStatus
    \/ CallRetrieve

SpecHandle == InitHandle /\ [][NextHandle]_vars

-----------------------------------------------------------------------------
\* Several stream_rag invocations on one event loop (rag/chain.py 135-139,
\* rag/retriever.py 101-113, rag/nodes/generate.py 85).  The loop runs one
\* task at a time, and a task gives the loop up only at an await that
\* suspends.

Tasks == 1..MaxTasks

\* The loop can run a step of task t: no task holds it, or t does.
CanStep(t) == loop = None \/ loop = Some(t)

\* stream_rag up to the search: await retriever.aretrieve(query) runs
\* aretrieve, whose body is the synchronous retrieve, so the task enters
\* similarity_search_with_score holding the loop.
SearchBegins(t) ==
    /\ pcI[t] = "new"
    /\ CanStep(t)
    /\ pcI' = [pcI EXCEPT ![t] = "searching"]
    /\ loop' = Some(t)
    /\ UNCHANGED <<received, backendVars, streamVars, runVars, queryVars,
                   indexVars, chatVars, messageVars, splitterVars, loaderVars,
                   handleVars>>

\* The search returns; the sources are yielded and generate_streaming awaits
\* the first unit of llm.astream, which suspends the task.
SearchReturns(t) ==
    /\ pcI[t] = "searching"
    /\ CanStep(t)
    /\ pcI' = [pcI EXCEPT ![t] = "awaiting"]
    /\ loop' = None
    /\ UNCHANGED <<received, backendVars, streamVars, runVars, queryVars,
                   indexVars, chatVars, messageVars, splitterVars, loaderVars,
                   handleVars>>

\* A unit of the backend arrives: the task is resumed, yields its update and
\* awaits the next unit.
UnitArrives(t) ==
    /\ pcI[t] = "awaiting"
    /\ CanStep(t)
    /\ received[t] < MaxDeltas
    /\ received' = [received EXCEPT ![t] = @ + 1]
    /\ UNCHANGED <<pcI, loop, backendVars, streamVars, runVars, queryVars,
                   indexVars, chatVars, messageVars, splitterVars, loaderVars,
                   handleVars>>

\* The backend's stream ends: the final update and the done event.
StreamEnds(t) ==
    /\ pcI[t] = "awaiting"
    /\ CanStep(t)
    /\ pcI' = [pcI EXCEPT ![t] = "done"]
    /\ UNCHANGED <<received, loop, backendVars, streamVars, runVars, queryVars,
                   indexVars, chatVars, messageVars, splitterVars, loaderVars,
                   handleVars>>

InitLoop ==
    /\ pcI = [t \in Tasks |-> "new"]
    /\ received = [t \in Tasks |-> 0]
    /\ loop = None
    /\ MessagesIdle
    /\ SplitterIdle
    /\ LoaderIdle
    /\ HandleIdle
    /\ PipelineIdle
    /\ QueryIdle
    /\ IndexIdle
    /\ ChatIdle

NextLoop ==
    \E t \in Tasks :
        \/ SearchBegins(t)
        \/ SearchReturns(t)
        \/ UnitArrives(t)
        \/ StreamEnds(t)

SpecLoop == InitLoop /\ [][NextLoop]_vars

-----------------------------------------------------------------------------
\* Properties of stream_rag and run_rag (SpecPipeline)

EventsOf(kind) == {i \in DOMAIN events : events[i].event = kind}
ResponseEvents == EventsOf("chunk") \cup EventsOf("done")
IsPrefix(s, t) == Len(s) <= Len(t) /\ SubSeq(t, 1, Len(s)) = s
DocsOf(hits) == [i \in 1..Len(hits) |-> hits[i].doc]
AllDeltasHaveText == \A i \in DOMAIN backend : ExtractContent(backend[i]) # <<>>

\* The join of the first n texts with the context separator, built from the left.
RECURSIVE JoinLeft(_, _)
JoinLeft(texts, n) ==
    IF n = 0 THEN ""
    ELSE IF n = 1 THEN texts[1]
    ELSE JoinLeft(texts, n - 1) \o ContextSeparator \o texts[n]
ContextOf(hits) == JoinLeft([i \in 1..Len(hits) |-> hits[i].doc.page_content], Len(hits))

\* C1: at every point of a stream() invocation a sources event precedes every
\* chunk and done event, every chunk event precedes the done event, and there
\* is at most one sources and one done event; a completed invocation has
\* exactly one of each, the sources event first and the done event last.
C1_SourcesFirstDoneLast ==
    /\ Cardinality(EventsOf("sources")) <= 1
    /\ Cardinality(EventsOf("done")) <= 1
    /\ \A i \in ResponseEvents : \E j \in EventsOf("sources") : j < i
    /\ \A i \in EventsOf("done") : \A j \in EventsOf("chunk") : j < i
    /\ pcS = "DONE" =>
          /\ EventsOf("sources") = {1}
          /\ EventsOf("done") = {Len(events)}
          /\ EventsOf("chunk") = 2..(Len(events) - 1)

C1_Witness == pcS = "DONE" /\ Cardinality(EventsOf("chunk")) >= 2

\* C2: for a backend that emits n >= 1 deltas with non-empty text and
\* completes, a completed stream() has emitted exactly n + 2 events: the
\* sources event, n chunk events of which the i-th carries d1..di, and the
\* done event carrying d1..dn.
C2_ExactEventSequence ==
    (pcS = "DONE" /\ Len(backend) >= 1 /\ AllDeltasHaveText) =>
        LET n == Len(backend)
        IN  /\ Len(events) = n + 2
            /\ events[1].event = "sources"
            /\ \A i \in 1..n : /\ events[i + 1].event = "chunk"
                               /\ events[i + 1].response = ScriptText(backend, i)
            /\ events[n + 2].event = "done"
            /\ events[n + 2].response = ScriptText(backend, n)

\* C3: the done event of a completed stream() carries the source list of the
\* sources event, the invocation has made exactly one similarity search, and
\* the done event's response is the response of the last chunk event.
C3_DoneRepeatsSources ==
    pcS = "DONE" =>
        /\ retrieveCalls = 1
        /\ \A d \in EventsOf("done") :
              /\ \A j \in EventsOf("sources") : events[d].sources = events[j].sources
              /\ \A c \in EventsOf("chunk") :
                    (\A c2 \in EventsOf("chunk") : c2 <= c)
                        => events[d].response = events[c].response

C3_Witness ==
    /\ pcS = "DONE"
    /\ events[Len(events)].sources # <<>>
    /\ Retrieve(searchHits).sources # events[Len(events)].sources
    /\ events[Len(events)].response # <<>>

\* C4: the responses emitted by one streaming invocation grow by extension:
\* each unit of generate_streaming, and each chunk or done event of stream(),
\* has the response of every earlier one as a prefix.
C4_ResponseGrowsByPrefix ==
    /\ \A i, j \in DOMAIN units :
          i < j => IsPrefix(units[i].response, units[j].response)
    /\ \A i, j \in ResponseEvents :
          i < j => IsPrefix(events[i].response, events[j].response)

C4_Witness ==
    /\ Len(units) >= 3
    /\ units[1].response # <<>>
    /\ units[2].response # units[1].response

\* C5: when run() and stream() served the same query over the same search
\* result and the same deterministic backend, run()'s final response equals
\* the response of stream()'s done event and run()'s sources equal the
\* sources of stream()'s sources event.
C5_RunEqualsStream ==
    (pcS = "DONE" /\ pcR = "GENERATED" /\ rHitsUsed = sHits) =>
        /\ runState.response = events[Len(events)].response
        /\ runState.sources = events[1].sources

C5_Witness ==
    /\ pcS = "DONE" /\ pcR = "GENERATED" /\ rHitsUsed = sHits
    /\ runState.sources # <<>>
    /\ Len(backend) >= 2
    /\ backend[1].kind = "list" /\ Truthy(backend[1])
    /\ backendFull.kind = "str"
    /\ runState.response # <<>>

\* C8: deduplication removes no chunk: the documents of retrieve() are the
\* chunks of the similarity search in rank order and the context is the join
\* of their texts in that order with the separator; the same holds for
\* retrieved_docs and context in the final state of run().
C8_DocumentsAndContextKeepEveryChunk ==
    /\ pcS \in {"RETRIEVED", "GENERATING", "FINAL", "DONE"} =>
          /\ sResult.documents = DocsOf(sHits)
          /\ events[1].context = ContextOf(sHits)
    /\ pcR = "GENERATED" =>
          /\ runState.retrieved_docs = DocsOf(rHitsUsed)
          /\ runState.context = ContextOf(rHitsUsed)

C8_Witness ==
    /\ pcS = "DONE" /\ pcR = "GENERATED"
    /\ Len(sResult.documents) = 3 /\ Len(sResult.sources) = 2
    /\ Len(runState.retrieved_docs) = 2 /\ Len(runState.sources) = 1

-----------------------------------------------------------------------------
\* Properties of DocumentRetriever.retrieve (SpecQuery)

\* The uniqueness key of a source: (filename, page, slide, sheet).
TupleKey(source) == <<source.filename, source.page, source.slide, source.sheet>>
HitKey(hit) == TupleKey(FromDocument(hit.doc, hit.score))

\* The rank of the first chunk of the search result with this key (0 if none).
FirstRank(hits, key) ==
    IF \E n \in DOMAIN hits : HitKey(hits[n]) = key
    THEN CHOOSE n \in DOMAIN hits :
            /\ HitKey(hits[n]) = key
            /\ \A m \in DOMAIN hits : HitKey(hits[m]) = key => n <= m
    ELSE 0

\* C6: a result of retrieve() has at most one source per (filename, page,
\* slide, sheet) key; each source carries the score of the first chunk of the
\* search result with its key; the sources are in order of first occurrence.
C6_OneSourcePerKeyWithFirstScore ==
    qpc = "done" =>
        LET src == qResult.sources
        IN  /\ \A i, j \in DOMAIN src :
                  TupleKey(src[i]) = TupleKey(src[j]) => i = j
            /\ \A i \in DOMAIN src :
                  /\ FirstRank(qHits, TupleKey(src[i])) # 0
                  /\ src[i].score = qHits[FirstRank(qHits, TupleKey(src[i]))].score
            /\ \A i, j \in DOMAIN src :
                  i < j => FirstRank(qHits, TupleKey(src[i]))
                               < FirstRank(qHits, TupleKey(src[j]))

C6_Witness ==
    /\ qpc = "done"
    /\ Len(qHits) = 3
    /\ HitKey(qHits[1]) = HitKey(qHits[3])
    /\ HitKey(qHits[1]) # HitKey(qHits[2])
    /\ qHits[1].score # qHits[3].score
    /\ Len(qResult.sources) = 2
    /\ qResult.sources[1].score = qHits[1].score

\* C7: chunks whose (filename, page, slide, sheet) tuples differ are never
\* merged: every key among the retrieved chunks has its own entry in sources.
C7_DistinctKeysNeverMerged ==
    qpc = "done" =>
        \A n \in DOMAIN qHits :
            \E i \in DOMAIN qResult.sources :
                TupleKey(qResult.sources[i]) = HitKey(qHits[n])

-----------------------------------------------------------------------------
\* Properties of DocumentIndexer (SpecIndex)

\* C9: in every reachable state of the index, a status() that directly
\* follows a clear() returns document_count = 0.
C9_StatusAfterClearIsZero ==
    (/\ lastOp.op = "status"
     /\ prevOp.op = "clear" /\ ~prevOp.failed /\ ~prevOp.raised)
        => lastCount = 0

\* C10: a status() that directly follows a successful index() with
\* clear_existing=True of a directory of N >= 1 non-empty documents that each
\* fit in one chunk returns document_count = N, whatever the index held before.
C10_StatusAfterClearingIndexIsN ==
    (/\ lastOp.op = "status" /\ ~lastOp.failed
     /\ prevOp.op = "index" /\ prevOp.clear /\ prevOp.oneChunkEach
     /\ prevOp.docs >= 1 /\ ~prevOp.failed)
        => lastCount = prevOp.docs

\* The error entries of the model's IndexResult.
LoadRaisedError == "Error loading documents: Directory does not exist"
AddBackendError == "Error adding to vector store: backend"
ErrorsOf(result) == {result.errors[i] : i \in DOMAIN result.errors}
IndexReturned == lastOp.op = "index" /\ ~lastOp.raised

\* C11 (as stated): whenever loading produces zero documents, index() returns
\* indexed_count = 0 and chunk_count = 0 with errors equal to exactly
\* ["No documents found"], without calling the chunker or the add.
C11_NoDocumentsFound ==
    (IndexReturned /\ lastOp.docs = 0) =>
        /\ lastResult = IndexResult(0, 0, <<"No documents found">>)
        /\ lastRun.splitCalls = 0 /\ lastRun.addCalls = 0

\* C11 (amended): whenever loading produces zero documents, index() returns
\* indexed_count = 0 and chunk_count = 0 without calling the chunker or the
\* add; errors is exactly ["No documents found"] when loading raised nothing,
\* and exactly the load error when load_directory raised.
C11_NoDocumentsReturnsAtOnce ==
    (IndexReturned /\ lastOp.docs = 0) =>
        /\ lastResult.indexed_count = 0 /\ lastResult.chunk_count = 0
        /\ lastRun.splitCalls = 0 /\ lastRun.addCalls = 0
        /\ lastResult.errors = IF lastOp.failed THEN <<LoadRaisedError>>
                               ELSE <<"No documents found">>

C11_Witness ==
    /\ IndexReturned /\ lastOp.docs = 0 /\ ~lastOp.failed
    /\ lastRun.fileErrors >= 1
    /\ lastResult.errors = <<"No documents found">>

\* C12: when one source file fails to load during an index() in which the
\* other files are chunked and added, the run is not aborted and the failure
\* is recorded as an entry of IndexResult.errors.
C12_FileFailureRecorded ==
    (/\ IndexReturned /\ lastRun.fileErrors = 1
     /\ lastOp.docs >= 1 /\ lastRun.addCalls = 1 /\ ~lastRun.addFailed)
        => /\ lastResult.indexed_count = lastOp.docs
           /\ lastResult.errors # <<>>

\* C13: when the batch add fails, index() does not raise and returns
\* indexed_count = 0 and chunk_count = 0 with the backend's error message
\* among the errors.
C13_AddFailureCreditsNothing ==
    (lastOp.op = "index" /\ lastRun.addFailed) =>
        /\ ~lastOp.raised
        /\ lastResult.indexed_count = 0 /\ lastResult.chunk_count = 0
        /\ AddBackendError \in ErrorsOf(lastResult)

C13_Witness ==
    /\ lastOp.op = "index" /\ lastRun.addFailed /\ lastOp.docs >= 2
    /\ lastRun.addCalls = 1 /\ collection = lastRun.before

\* C14: when at least one document is loaded but the chunker yields zero
\* chunks, index() returns indexed_count = the number of loaded documents,
\* chunk_count = 0 and errors exactly ["No chunks generated after splitting"],
\* and the add is never called.
C14_NoChunksGenerated ==
    (IndexReturned /\ lastOp.docs >= 1 /\ lastRun.chunks = 0) =>
        /\ lastResult = IndexResult(lastOp.docs, 0,
                                    <<"No chunks generated after splitting">>)
        /\ lastRun.addCalls = 0

C14_Witness ==
    /\ IndexReturned /\ lastOp.docs >= 1 /\ lastRun.chunks = 0
    /\ lastRun.splitCalls = 1 /\ lastResult.indexed_count = lastOp.docs

\* C15: a successful index() reports indexed_count = the number of loaded
\* documents and chunk_count = the number of chunks, adds the chunks in exactly
\* one add call, and without clear_existing leaves the collection with its
\* count before the call plus chunk_count.
IndexSucceeded == IndexReturned /\ ~lastOp.failed /\ lastRun.chunks >= 1

C15_SuccessCountsAndAdds ==
    IndexSucceeded =>
        /\ lastResult.indexed_count = lastOp.docs
        /\ lastResult.chunk_count = lastRun.chunks
        /\ lastRun.splitCalls = 1 /\ lastRun.addCalls = 1
        /\ ~lastOp.clear => collection = lastRun.before + lastResult.chunk_count

\* An additive index() over a collection that already held as many chunks as
\* these documents give: the count doubles.
C15_Witness ==
    /\ IndexSucceeded /\ ~lastOp.clear
    /\ lastRun.before >= 1 /\ lastRun.before = lastRun.chunks
    /\ collection = 2 * lastRun.chunks

\* C16: when the deletion of the collection fails during a clear() that
\* returns, the index has been recreated empty: the next status() reports 0
\* and the indexer holds a store handle.
C16_FailedDeleteLeavesEmptyIndex ==
    (/\ lastOp.op = "status" /\ ~lastOp.failed
     /\ prevOp.op = "clear" /\ prevOp.failed /\ ~prevOp.raised)
        => lastCount = 0 /\ vectorStore # None

\* C17: status() never raises; when the backend fails while the store handle
\* is obtained or the collection counted it returns 0; and it leaves the
\* collection as it was.
C17_CountNeverRaises ==
    lastOp.op = "status" =>
        /\ ~lastOp.raised
        /\ lastOp.failed => lastCount = 0
        /\ collection = lastRun.before

\* A status() whose Chroma constructor failed, over a collection with chunks.
C17_Witness ==
    /\ lastOp.op = "status" /\ lastOp.failed /\ vectorStore = None
    /\ collection >= 1 /\ lastCount = 0

-----------------------------------------------------------------------------
\* Properties of the streaming chat endpoint (SpecChat)

SseOf(kind) == {i \in DOMAIN sse : sse[i].event = kind}
AssistantRows == {i \in DOMAIN messages : messages[i].role = "assistant"}

\* C18: when the backend fails after stream() has emitted its sources event
\* and any number of chunk events, stream() has emitted no done event and
\* has called the backend at most once; the transport's stream then closes
\* with an error event, without a done event, and no assistant message is
\* saved for the turn.
C18_BackendFailureEndsInError ==
    (pcS = "FAILED" /\ events # <<>>) =>
        /\ EventsOf("done") = {}
        /\ llmCalls <= 1
        /\ AssistantRows = {}
        /\ pcE = "CLOSED" => /\ sse[Len(sse)].event = "error"
                             /\ SseOf("done") = {}

\* The backend failed after a chunk event, in a request with a session.
C18_Witness ==
    /\ pcS = "FAILED" /\ pcE = "CLOSED" /\ sessionReq = "valid"
    /\ llmCalls = 1 /\ EventsOf("chunk") # {} /\ SseOf("chunk") # {}
    /\ sse[Len(sse)].event = "error"

\* C19: every fully consumed SSE stream of the streaming chat endpoint ends
\* with exactly one terminal event, done or error: the last event is the only
\* done or error event of the stream.
C19_ExactlyOneTerminalEvent ==
    pcE = "CLOSED" => SseOf("done") \cup SseOf("error") = {Len(sse)}

\* C20: with the credential of the selected provider missing, stream() emits
\* no sources event before the missing-credential error has surfaced.
C20_MissingCredentialBeforeSources ==
    (CreateLlmRaises(ragSettings) /\ pcS # "FAILED") => EventsOf("sources") = {}

-----------------------------------------------------------------------------
\* Properties of generate_streaming (SpecPipeline)

TextDeltas == {i \in DOMAIN backend : ExtractContent(backend[i]) # <<>>}
ContentDeltas == {i \in DOMAIN backend : Truthy(backend[i])}
StreamingUnits == {i \in DOMAIN units : units[i].is_streaming}
GenerationComplete == pcS \in {"FINAL", "DONE"}

\* The units of a completed generate_streaming: n streaming units without
\* model and provider, then one final unit with them whose response is the
\* accumulated text.
UnitsShape(n) ==
    /\ Len(units) = n + 1
    /\ StreamingUnits = 1..n
    /\ \A i \in 1..n : units[i].model = None /\ units[i].provider = None
    /\ units[n + 1].model # None /\ units[n + 1].provider # None
    /\ units[n + 1].response = accumulated
    /\ n >= 1 => units[n + 1].response = units[n].response
    /\ n = 0 => units[n + 1].response = <<>>

\* C27 (as stated): for a backend producing n deltas with non-empty text,
\* generate_streaming emits exactly n streaming units and then one final unit;
\* deltas with empty text produce no unit.
C27_UnitPerTextDelta ==
    GenerationComplete => UnitsShape(Cardinality(TextDeltas))

\* C27 (amended): generate_streaming emits one streaming unit for every delta
\* whose content is truthy (a non-empty str or a non-empty list, whatever text
\* it extracts to) and then one final unit; deltas whose content is "" or []
\* produce no unit, and a backend with no output yields the single final unit
\* with an empty response.
C27_UnitPerContentDelta ==
    GenerationComplete => UnitsShape(Cardinality(ContentDeltas))

\* A completed generation over one delta with content and one without.
C27_Witness ==
    /\ GenerationComplete /\ Len(backend) = 2
    /\ Cardinality(ContentDeltas) = 1 /\ Len(units) = 2
    /\ units[2].response # <<>>

-----------------------------------------------------------------------------
\* Properties of the SSE events of the streaming chat endpoint (SpecChat)

\* The text fields of the chunk events among sse[1..n], concatenated in order.
RECURSIVE ChunkText(_)
ChunkText(n) ==
    IF n = 0 THEN <<>>
    ELSE IF sse[n].event = "chunk" THEN ChunkText(n - 1) \o sse[n].text
    ELSE ChunkText(n - 1)

\* C30: the SSE chunk events carry only the text that is new since the
\* previous chunk event: at every point their texts concatenate to the last
\* response handled, and once the done event is emitted, to the response it
\* carries; no chunk event has empty text and at most one sources event is
\* emitted.
C30_ChunkTextsAddUpToResponse ==
    /\ ChunkText(Len(sse)) = lastResponse
    /\ \A i \in SseOf("done") : ChunkText(Len(sse)) = sse[i].response
    /\ \A i \in SseOf("chunk") : sse[i].text # <<>>
    /\ Cardinality(SseOf("sources")) <= 1

\* A closed stream with two chunk events, a done event and a longer response.
C30_Witness ==
    /\ pcE = "CLOSED" /\ SseOf("done") # {}
    /\ Cardinality(SseOf("chunk")) = 2
    /\ Len(finalResponse) >= 3
    /\ Cardinality(SseOf("sources")) = 1

-----------------------------------------------------------------------------
\* Properties of the persistence of the two chat endpoints (SpecChat)

\* The request has been served and its pipeline completed without error.
ServedWithoutError ==
    \/ endpoint = "chat" /\ pcE = "HTTP200"
    \/ endpoint = "chat/stream" /\ pcE = "CLOSED" /\ pcS = "DONE"
          /\ SseOf("error") = {}

\* What the pipeline of the request returned: run_rag's final state, or the
\* done event of stream_rag.
PipelineOutput ==
    IF endpoint = "chat" THEN runState ELSE events[Len(events)]

\* The assistant row with the final response, its sources, model and provider.
ExpectedAssistantRow ==
    [role |-> "assistant", content |-> PipelineOutput.response,
     sources_json |-> IF PipelineOutput.sources = <<>> THEN None
                      ELSE Some(PipelineOutput.sources),
     model |-> Some(PipelineOutput.model),
     provider |-> Some(PipelineOutput.provider)]

\* C23: a chat request with a valid session id whose pipeline completes
\* without error has persisted exactly two messages, the user query and then
\* the assistant message with the final response, its sources, model and
\* provider, on either endpoint; a request without session id persists none.
C23_TwoMessagesPersisted ==
    ServedWithoutError =>
        /\ sessionReq = "valid" =>
              /\ Len(messages) = 2
              /\ messages[1].role = "user" /\ messages[1].content = Query
              /\ messages[2] = ExpectedAssistantRow
        /\ sessionReq = "none" => messages = <<>>

-----------------------------------------------------------------------------
\* Properties of the reported model identifier (SpecChat)

\* C22: the model identifier in run()'s final state and on stream()'s done
\* event equals the model identifier the backend serving the turn was
\* constructed with, for every selectable provider.
C22_ReportedModelIsBackendModel ==
    /\ pcR = "GENERATED" => runState.model = CreateLlmModel(ragSettings)
    /\ pcS = "DONE" => events[Len(events)].model = CreateLlmModel(ragSettings)

-----------------------------------------------------------------------------
\* Properties of the messages of the initial state (SpecMessages)

AllUserOrAssistant(history) ==
    \A i \in DOMAIN history : history[i].role \in {"user", "assistant"}

\* C26: run() and stream() build messages as the chat_history turns in their
\* order, a user turn as a human message and an assistant turn as an AI
\* message, followed by the query as the final human message; when every role
\* is user or assistant the list has len(chat_history) + 1 messages; and the
\* transport passes the last request message as the query and the preceding
\* messages as the history.
C26_MessagesAreHistoryThenQuery ==
    /\ (pcM # "input" /\ request # <<>>) =>
          /\ ragQuery = request[Len(request)].content
          /\ Len(ragHistory) = Len(request) - 1
          /\ \A i \in DOMAIN ragHistory : ragHistory[i] = request[i]
    /\ pcM = "built" =>
          /\ ragMessages[Len(ragMessages)] = HumanMessage(ragQuery)
          /\ AllUserOrAssistant(ragHistory) =>
                /\ Len(ragMessages) = Len(ragHistory) + 1
                /\ \A i \in DOMAIN ragHistory :
                      /\ ragMessages[i].content = ragHistory[i].content
                      /\ ragMessages[i].type =
                            IF ragHistory[i].role = "user" THEN "human" ELSE "ai"

\* A request of three messages, user, assistant, user, built into messages.
C26_Witness ==
    /\ pcM = "built" /\ Len(request) = 3
    /\ request[1].role = "user" /\ request[2].role = "assistant"
    /\ request[1].content # request[3].content
    /\ Len(ragMessages) = 3 /\ ragMessages[2].type = "ai"

-----------------------------------------------------------------------------
\* Properties of create_text_splitter (SpecSplitter)

\* C28: create_text_splitter(chunk_size=s, chunk_overlap=o) returns a splitter
\* configured with exactly chunk size s and overlap o for every supplied pair,
\* o = 0 included; the configured default is used only for a parameter that
\* was not supplied.
C28_SuppliedPairIsConfigured ==
    pcT = "created" =>
        /\ splitter.chunk_size =
              IF splitterArgs.chunk_size = None THEN chunkSettings.chunk_size
              ELSE splitterArgs.chunk_size[1]
        /\ splitter.chunk_overlap =
              IF splitterArgs.chunk_overlap = None THEN chunkSettings.chunk_overlap
              ELSE splitterArgs.chunk_overlap[1]

-----------------------------------------------------------------------------
\* Properties of the loaders (SpecLoader)

\* C25: every Document a loader (txt, pdf, docx, pptx, xlsx) produces has text
\* that is not empty after trimming whitespace; an input whose extracted text
\* is empty or only whitespace yields no Document.
C25_DocumentTextIsNotBlank ==
    pcL = "loaded" =>
        \A i \in DOMAIN loaded : ~StripIsEmpty(loaded[i].page_content)

-----------------------------------------------------------------------------
\* Properties of the indexer singleton and its store handle (SpecHandle)

\* get_indexer() always returns the same instance; the handle is not
\* constructed before its first use; at most one handle is constructed from
\* one clear() to the next.
SingletonAndLazyHandle ==
    /\ Cardinality(got) <= 1
    /\ ~storeUsed => handlesMade = 0 /\ store = None
    /\ sinceClear <= 1

-----------------------------------------------------------------------------
\* Properties of concurrent invocations on one event loop (SpecLoop)

\* C21: while one pipeline invocation is waiting on its similarity search, the
\* other in-flight invocations on the same event loop can still take steps:
\* the retrieval is a suspension point, not an atomic blocking step.
C21_SearchYieldsControl ==
    \A t \in Tasks, u \in Tasks :
        (t # u /\ pcI[t] = "searching" /\ pcI[u] = "awaiting") => CanStep(u)

====
